---- MODULE Spec2Model ----
(***************************************************************************)
(* dbt-conceptual: the conceptual-model parser, the state builder          *)
(* (reconciler), the validate-and-sync pass and the derived status         *)
(* accessors, as state machines over the declared document, the scanned    *)
(* model records and the dependency manifest.                              *)
(*                                                                         *)
(* Python values are modelled as follows.  None is the string "None".      *)
(* A dict is a sequence of [key, val] records in insertion order (Python   *)
(* dicts iterate in insertion order; assigning to an existing key keeps    *)
(* its position).  A list is a sequence.  A flat tag "prefix:rest" is the  *)
(* pair <<"prefix:", "rest">>, so startswith/slicing act on the pair.      *)
(***************************************************************************)
EXTENDS Integers, Sequences, FiniteSets, TLC

VARIABLES
    doc,        \* conceptual.yml as loaded by yaml.safe_load (None: no file / empty file)
    records,    \* the model records DbtProjectScanner.scan() returns
    manifest,   \* target/manifest.json (None: the file does not exist)
    state,      \* the ProjectState under construction / in memory
    prev,       \* the ProjectState returned by the previous build() (None before)
    validation, \* the ValidationState returned by the last validate_and_sync (None before)
    response,   \* the statuses serialised by the last status read (None before)
    calls,      \* number of validate_and_sync calls made on `state`
    validator,  \* the Validator over `state`: its config, no_drafts, issues, exit status
    diffrun,    \* the git environment, base document and outcome of the diff command
    synccmd,    \* the options and outcome of the sync command, or Nothing
    tagrun,     \* the tag applier: the schema files and the computed changes, or Nothing
    pc          \* which operation produced `state`

vars == <<doc, records, manifest, state, prev, validation, response, calls,
          validator, diffrun, synccmd, tagrun, pc>>

None == "None"

\* Python truthiness of an Optional[str]: None and "" are falsy.
Falsy(x) == x = None \/ x = ""

\* `x in lst` on a list.
Contains(lst, x) == \E i \in 1..Len(lst) : lst[i] = x

SeqToSet(lst) == {lst[i] : i \in 1..Len(lst)}

\* No element occurs twice in the list.
NoDup(lst) == \A i, j \in 1..Len(lst) : lst[i] = lst[j] => i = j

(***************************************************************************)
(* dict operations                                                         *)
(***************************************************************************)
Keys(d) == {d[i].key : i \in 1..Len(d)}

Has(d, k) == \E i \in 1..Len(d) : d[i].key = k

Idx(d, k) == CHOOSE i \in 1..Len(d) : d[i].key = k

Get(d, k) == d[Idx(d, k)].val

\* d[k] = v
Put(d, k, v) ==
    IF Has(d, k)
    THEN [d EXCEPT ![Idx(d, k)] = [key |-> k, val |-> v]]
    ELSE Append(d, [key |-> k, val |-> v])

(***************************************************************************)
(* state.py (with the fields parser.py passes to the constructors)         *)
(***************************************************************************)
ConceptState(name, domain, owner, definition, color, replaced_by) ==
    [name |-> name, domain |-> domain, owner |-> owner,
     definition |-> definition, color |-> color, replaced_by |-> replaced_by,
     models |-> <<>>,
     bronze_models |-> <<>>, silver_models |-> <<>>, gold_models |-> <<>>,
     inferred_models |-> <<>>,
     is_ghost |-> FALSE, validation_status |-> "valid",
     validation_messages |-> <<>>]

\* ConceptState(name=..., domain=None, is_ghost=True, validation_status="error",
\*              validation_messages=["Referenced but not defined"])
GhostConcept(name) ==
    [ConceptState(name, None, None, None, None, None) EXCEPT
        !.is_ghost = TRUE,
        !.validation_status = "error",
        !.validation_messages = <<"Referenced but not defined">>]

RelationshipState(verb, from_concept, to_concept, cardinality, definition, domains, owner, custom_name) ==
    [verb |-> verb, from_concept |-> from_concept, to_concept |-> to_concept,
     cardinality |-> cardinality, definition |-> definition,
     domains |-> domains, owner |-> owner, custom_name |-> custom_name,
     realized_by |-> <<>>,
     validation_status |-> "valid", validation_messages |-> <<>>]

DomainState(name, display_name, color, owner) ==
    [name |-> name, display_name |-> display_name, color |-> color, owner |-> owner]

OrphanModel(name, description, domain, layer, path) ==
    [name |-> name, description |-> description, domain |-> domain,
     layer |-> layer, path |-> path]

ModelInfo(name, concept, realizes, domain_tags, owner_tag, layer, path) ==
    [name |-> name, concept |-> concept, realizes |-> realizes,
     domain_tags |-> domain_tags, owner_tag |-> owner_tag, layer |-> layer,
     path |-> path, inferred_concepts |-> <<>>]

ProjectState ==
    [concepts |-> <<>>, relationships |-> <<>>, domains |-> <<>>,
     orphan_models |-> <<>>, models |-> <<>>, metadata |-> <<>>,
     groups |-> <<>>]

\* Faulty variant: the status frozen as it was when the concept was constructed
\* (no models linked yet), instead of derived from the current models.
status_stale(concept) ==
    IF Falsy(concept.domain) THEN "stub" ELSE "draft"

\* ConceptState.status
status(concept) ==
    IF Falsy(concept.domain) THEN "stub"
    ELSE IF concept.models = <<>> THEN "draft"
    ELSE "complete"

\* Faulty variant: an endpoint missing from the map is not treated as a stub endpoint.
get_status_present(rel, concepts) ==
    IF Has(concepts, rel.from_concept)
       /\ (Get(concepts, rel.from_concept).is_ghost
           \/ status(Get(concepts, rel.from_concept)) = "stub")
    THEN "stub"
    ELSE IF Has(concepts, rel.to_concept)
            /\ (Get(concepts, rel.to_concept).is_ghost
                \/ status(Get(concepts, rel.to_concept)) = "stub")
    THEN "stub"
    ELSE "complete"

\* RelationshipState.get_status
get_status(rel, concepts) ==
    IF ~Has(concepts, rel.from_concept)
       \/ Get(concepts, rel.from_concept).is_ghost
       \/ status(Get(concepts, rel.from_concept)) = "stub"
    THEN "stub"
    ELSE IF ~Has(concepts, rel.to_concept)
            \/ Get(concepts, rel.to_concept).is_ghost
            \/ status(Get(concepts, rel.to_concept)) = "stub"
    THEN "stub"
    ELSE "complete"

\* RelationshipState.name
rel_name(rel) == rel.from_concept \o ":" \o rel.verb \o ":" \o rel.to_concept

(***************************************************************************)
(* ConceptualModelParser.parse                                             *)
(***************************************************************************)
\* dict.get(key, default) on a document entry; an absent key is None in the model.
GetOr(v, default) == IF v = None THEN default ELSE v

RECURSIVE ParseDomains(_, _, _)
ParseDomains(items, i, acc) ==
    IF i > Len(items) THEN acc
    ELSE ParseDomains(items, i + 1,
            Put(acc, items[i].id,
                DomainState(items[i].id, GetOr(items[i].name, items[i].id),
                            items[i].color, items[i].owner)))

RECURSIVE ParseConcepts(_, _, _)
ParseConcepts(items, i, acc) ==
    IF i > Len(items) THEN acc
    ELSE ParseConcepts(items, i + 1,
            Put(acc, items[i].id,
                ConceptState(GetOr(items[i].name, items[i].id), items[i].domain,
                             items[i].owner, items[i].definition,
                             items[i].color, items[i].replaced_by)))

\* rel.get("verb", rel.get("name", "relates_to"))
RelVerb(rel) == GetOr(rel.verb, GetOr(rel.name, "relates_to"))

\* The cardinality as parse stores it: rel.get("cardinality").
ParseCardinality(rel) == rel.cardinality

\* A YAML value that may be absent, a string or a list is the record
\* [t |-> "none"], [t |-> "str", v |-> s] or [t |-> "list", v |-> lst].
Absent == [t |-> "none"]
Str(s) == [t |-> "str", v |-> s]
Lst(l) == [t |-> "list", v |-> l]

\* domains_raw = rel.get("domains", rel.get("domain")); str -> [str] (or [] if
\* empty), list -> list, anything else -> [].
ParseRelDomains(rel) ==
    LET domains_raw == IF rel.domains # Absent THEN rel.domains ELSE rel.domain
    IN  IF domains_raw.t = "str"
        THEN (IF domains_raw.v = "" THEN <<>> ELSE <<domains_raw.v>>)
        ELSE IF domains_raw.t = "list" THEN domains_raw.v
        ELSE <<>>

RECURSIVE ParseRelationships(_, _, _)
ParseRelationships(items, i, acc) ==
    IF i > Len(items) THEN acc
    ELSE LET rel == items[i]
             verb == RelVerb(rel)
             rel_id == rel.from \o ":" \o verb \o ":" \o rel.to
         IN  ParseRelationships(items, i + 1,
                Put(acc, rel_id,
                    RelationshipState(verb, rel.from, rel.to,
                                      ParseCardinality(rel), rel.definition,
                                      ParseRelDomains(rel), rel.owner,
                                      rel.custom_name)))

\* The document: [exists |-> FALSE] when conceptual.yml is missing or empty.
NoDoc == [exists |-> FALSE]

parse(d) ==
    IF ~d.exists THEN ProjectState
    ELSE [ProjectState EXCEPT
            !.metadata = d.metadata,
            !.domains = ParseDomains(d.domains, 1, <<>>),
            !.concepts = ParseConcepts(d.concepts, 1, <<>>),
            !.relationships = ParseRelationships(d.relationships, 1, <<>>),
            !.groups = d.groups]

(***************************************************************************)
(* StateBuilder.build: the record loop                                     *)
(*                                                                         *)
(* A model record is [name, layer, concept, realizes, domain, description, *)
(* path, tags, databricks_tags]: concept is meta["concept"] (None: the key *)
(* is absent), realizes is meta["realizes"] as an Absent/Str/Lst value     *)
(* whose items are [neg, ref] ("-ref" is [neg |-> TRUE, ref |-> "ref"]),   *)
(* tags is a list of <<"prefix:", "rest">> pairs, databricks_tags is       *)
(* [domain, owner] with Absent for a missing key.                          *)
(***************************************************************************)
\* item.startswith("-") items are exclusions, a group name expands to its
\* members, anything else is a relationship id.
RECURSIVE ExpandItems(_, _, _, _)
ExpandItems(realizes, groups, i, expanded) ==
    IF i > Len(realizes) THEN expanded
    ELSE IF realizes[i].neg
         THEN ExpandItems(realizes, groups, i + 1, expanded)
    ELSE IF Has(groups, realizes[i].ref)
         THEN ExpandItems(realizes, groups, i + 1,
                          expanded \o Get(groups, realizes[i].ref))
    ELSE ExpandItems(realizes, groups, i + 1, Append(expanded, realizes[i].ref))

\* StateBuilder._expand_realizes
expand_realizes(realizes, st) ==
    LET exclusions == {realizes[i].ref : i \in {j \in 1..Len(realizes) : realizes[j].neg}}
        expanded == ExpandItems(realizes, st.groups, 1, <<>>)
    IN  SelectSeq(expanded, LAMBDA r : r \notin exclusions)

\* Faulty variant: a link to an undeclared concept creates a placeholder for it.
LinkConcept_create(st, model) ==
    IF model.concept # None /\ ~Has(st.concepts, model.concept)
    THEN [st EXCEPT !.concepts = Put(st.concepts, model.concept,
                                     GhostConcept(model.concept))]
    ELSE IF model.concept # None
    THEN LET concept == Get(st.concepts, model.concept)
         IN  IF model.layer = "silver" /\ ~Contains(concept.silver_models, model.name)
             THEN [st EXCEPT !.concepts = Put(st.concepts, model.concept,
                     [concept EXCEPT !.silver_models = Append(@, model.name)])]
             ELSE IF model.layer = "gold" /\ ~Contains(concept.gold_models, model.name)
             THEN [st EXCEPT !.concepts = Put(st.concepts, model.concept,
                     [concept EXCEPT !.gold_models = Append(@, model.name)])]
             ELSE st
    ELSE st

\* "Handle concept linkage"
LinkConcept(st, model) ==
    IF model.concept # None /\ Has(st.concepts, model.concept)
    THEN LET concept == Get(st.concepts, model.concept)
         IN  IF model.layer = "silver" /\ ~Contains(concept.silver_models, model.name)
             THEN [st EXCEPT !.concepts = Put(st.concepts, model.concept,
                     [concept EXCEPT !.silver_models = Append(@, model.name)])]
             ELSE IF model.layer = "gold" /\ ~Contains(concept.gold_models, model.name)
             THEN [st EXCEPT !.concepts = Put(st.concepts, model.concept,
                     [concept EXCEPT !.gold_models = Append(@, model.name)])]
             ELSE st
    ELSE st

\* meta["realizes"] as a list: a non-list value is wrapped.
RealizesList(model) ==
    IF model.realizes.t = "list" THEN model.realizes.v ELSE <<model.realizes.v>>

RECURSIVE AddRealizedBy(_, _, _, _)
AddRealizedBy(rels, expanded, i, model_name) ==
    IF i > Len(expanded) THEN rels
    ELSE IF Has(rels, expanded[i])
            /\ ~Contains(Get(rels, expanded[i]).realized_by, model_name)
         THEN AddRealizedBy(
                Put(rels, expanded[i],
                    [Get(rels, expanded[i]) EXCEPT
                        !.realized_by = Append(@, model_name)]),
                expanded, i + 1, model_name)
    ELSE AddRealizedBy(rels, expanded, i + 1, model_name)

\* "Handle relationship realization"
LinkRealizes(st, model) ==
    IF model.realizes # Absent
    THEN [st EXCEPT !.relationships =
            AddRealizedBy(st.relationships,
                          expand_realizes(RealizesList(model), st), 1, model.name)]
    ELSE st

\* Faulty variant: a record is an orphan whenever its concept link is absent.
IsOrphan_noconcept(model) == model.concept = None

\* "Track orphan models (models without concept or realizes)": only layered
\* (silver, gold) models are tracked.
IsOrphan(model) ==
    /\ model.concept = None
    /\ model.realizes = Absent
    /\ model.layer \in {"silver", "gold"}

TrackOrphan(st, model) ==
    IF IsOrphan(model)
    THEN [st EXCEPT !.orphan_models =
            Append(@, OrphanModel(model.name, model.description, model.domain,
                                  model.layer, model.path))]
    ELSE st

\* Flat tags: "domain:x" contributes x to domain_tags, "owner:x" sets owner_tag.
RECURSIVE FlatTags(_, _, _)
FlatTags(tags, i, acc) ==
    IF i > Len(tags) THEN acc
    ELSE IF tags[i][1] = "domain:"
         THEN FlatTags(tags, i + 1,
                       [acc EXCEPT !.domain_tags = Append(@, tags[i][2])])
    ELSE IF tags[i][1] = "owner:"
         THEN FlatTags(tags, i + 1, [acc EXCEPT !.owner_tag = tags[i][2]])
    ELSE FlatTags(tags, i + 1, acc)

\* Faulty variant: a structured domain replaces the domains of the flat tags.
DatabricksTags_exclusive(dt, acc) ==
    LET withDomain ==
            IF dt.domain.t = "list"
            THEN [acc EXCEPT !.domain_tags = dt.domain.v]
            ELSE IF dt.domain.t = "str" /\ dt.domain.v # ""
            THEN [acc EXCEPT !.domain_tags = <<dt.domain.v>>]
            ELSE acc
    IN  IF dt.owner.t = "str"
        THEN [withDomain EXCEPT !.owner_tag = dt.owner.v]
        ELSE withDomain

\* databricks_tags: a list under "domain" extends domain_tags, a non-empty
\* string is appended; "owner" overrides owner_tag.
DatabricksTags(dt, acc) ==
    LET withDomain ==
            IF dt.domain.t = "list"
            THEN [acc EXCEPT !.domain_tags = @ \o dt.domain.v]
            ELSE IF dt.domain.t = "str" /\ dt.domain.v # ""
            THEN [acc EXCEPT !.domain_tags = Append(@, dt.domain.v)]
            ELSE acc
    IN  IF dt.owner.t = "str"
        THEN [withDomain EXCEPT !.owner_tag = dt.owner.v]
        ELSE withDomain

\* meta.get("realizes", []) as a list for ModelInfo.
InfoRealizes(model) ==
    IF model.realizes.t = "list" THEN model.realizes.v
    ELSE IF model.realizes.t = "str" /\ model.realizes.v # ""
         THEN <<model.realizes.v>>
    ELSE <<>>

\* "Build ModelInfo for tag validation"
BuildModelInfo(st, model) ==
    IF model.layer \in {"silver", "gold"}
    THEN LET t == DatabricksTags(model.databricks_tags,
                    FlatTags(model.tags, 1,
                             [domain_tags |-> <<>>, owner_tag |-> None]))
         IN  [st EXCEPT !.models =
                Put(st.models, model.name,
                    ModelInfo(model.name, model.concept, InfoRealizes(model),
                              t.domain_tags, t.owner_tag, model.layer,
                              model.path))]
    ELSE st

\* One iteration of `for model in models`.
ProcessModel(st, model) ==
    BuildModelInfo(TrackOrphan(LinkRealizes(LinkConcept(st, model), model), model),
                   model)

RECURSIVE ProcessModels(_, _, _)
ProcessModels(st, models, i) ==
    IF i > Len(models) THEN st
    ELSE ProcessModels(ProcessModel(st, models[i]), models, i + 1)

(***************************************************************************)
(* StateBuilder._infer_lineage                                             *)
(*                                                                         *)
(* The manifest is [exists, nodes]; nodes lists the "model." nodes in file *)
(* order as [name, layer, deps], layer being config.get_layer of the       *)
(* node's original_file_path and deps the depends_on.nodes entries as      *)
(* [kind, name] with kind "model" or "source" (a source's name is its      *)
(* "schema.table").                                                        *)
(***************************************************************************)
NoManifest == [exists |-> FALSE]

NodeNames(man) == {man.nodes[i].name : i \in 1..Len(man.nodes)}

\* The last node of that name (a later dict assignment overwrites).
NodeOf(man, name) ==
    man.nodes[CHOOSE i \in 1..Len(man.nodes) :
                /\ man.nodes[i].name = name
                /\ \A j \in (i + 1)..Len(man.nodes) : man.nodes[j].name # name]

\* `"." in name`: the names with a dot are the source names.
DottedNames == {"raw.customers"}

HasDot(name) == name \in DottedNames

\* upstream_graph.get(current, []): the node's model dependencies that are
\* nodes of the manifest, and its source dependencies.
upstream_graph(man, current) ==
    IF current \in NodeNames(man)
    THEN LET deps == NodeOf(man, current).deps
         IN  [i \in 1..Len(SelectSeq(deps, LAMBDA d :
                    d.kind = "source" \/ d.name \in NodeNames(man))) |->
                SelectSeq(deps, LAMBDA d :
                    d.kind = "source" \/ d.name \in NodeNames(man))[i].name]
    ELSE <<>>

\* How often `dep_name` is a model dependency of the node.
RECURSIVE DepCount(_, _, _)
DepCount(deps, i, dep_name) ==
    IF i > Len(deps) THEN 0
    ELSE (IF deps[i].kind = "model" /\ deps[i].name = dep_name THEN 1 ELSE 0)
         + DepCount(deps, i + 1, dep_name)

RECURSIVE Repeat(_, _)
Repeat(x, n) == IF n = 0 THEN <<>> ELSE <<x>> \o Repeat(x, n - 1)

\* downstream_graph.get(current, []): the nodes that depend on `current`, in
\* node order, once per dependency entry.
RECURSIVE downstream_from(_, _, _)
downstream_from(man, current, i) ==
    IF i > Len(man.nodes) THEN <<>>
    ELSE Repeat(man.nodes[i].name, DepCount(man.nodes[i].deps, 1, current))
         \o downstream_from(man, current, i + 1)

downstream_graph(man, current) ==
    IF current \in NodeNames(man) THEN downstream_from(man, current, 1) ELSE <<>>

\* get_layer inside _infer_lineage: None for a name that is no node.
get_layer(man, model_name) ==
    IF model_name \in NodeNames(man) THEN NodeOf(man, model_name).layer ELSE None

\* explicit_models: model_name -> concept_id over silver_models + gold_models.
RECURSIVE ExplicitOfList(_, _, _, _)
ExplicitOfList(acc, lst, i, concept_id) ==
    IF i > Len(lst) THEN acc
    ELSE ExplicitOfList(Put(acc, lst[i], concept_id), lst, i + 1, concept_id)

RECURSIVE ExplicitModels(_, _, _)
ExplicitModels(concepts, i, acc) ==
    IF i > Len(concepts) THEN acc
    ELSE ExplicitModels(concepts, i + 1,
            ExplicitOfList(acc,
                concepts[i].val.silver_models \o concepts[i].val.gold_models,
                1, concepts[i].key))

\* Append `model` to the concept's list `field` (and to inferred_models)
\* unless it is there, and record the concept on the model's ModelInfo.
Infer(st, concept_id, field, model) ==
    LET concept == Get(st.concepts, concept_id)
        concepts2 ==
            IF Contains(concept[field], model) THEN st.concepts
            ELSE Put(st.concepts, concept_id,
                     [concept EXCEPT ![field] = Append(@, model),
                                     !.inferred_models = Append(@, model)])
        models2 ==
            IF Has(st.models, model)
               /\ ~Contains(Get(st.models, model).inferred_concepts, concept_id)
            THEN Put(st.models, model,
                     [Get(st.models, model) EXCEPT
                        !.inferred_concepts = Append(@, concept_id)])
            ELSE st.models
    IN  [st EXCEPT !.concepts = concepts2, !.models = models2]

\* `for upstream in upstream_graph.get(current, [])`
RECURSIVE UpEdges(_, _, _, _, _, _, _, _)
UpEdges(st, concept_id, ups, i, queue, visited, man, explicit) ==
    IF i > Len(ups) THEN [st |-> st, queue |-> queue]
    ELSE IF ups[i] \in visited \/ Has(explicit, ups[i])
         THEN UpEdges(st, concept_id, ups, i + 1, queue, visited, man, explicit)
    ELSE LET layer == IF HasDot(ups[i]) THEN "bronze" ELSE get_layer(man, ups[i])
         IN  IF layer = "bronze"
             THEN UpEdges(Infer(st, concept_id, "bronze_models", ups[i]),
                          concept_id, ups, i + 1, queue, visited, man, explicit)
             ELSE IF layer = "silver"
             THEN UpEdges(Infer(st, concept_id, "silver_models", ups[i]),
                          concept_id, ups, i + 1, Append(queue, ups[i]),
                          visited, man, explicit)
             ELSE UpEdges(st, concept_id, ups, i + 1, queue, visited, man, explicit)

\* "Traverse upstream (bronze/silver)": the while loop over the queue.
RECURSIVE TraverseUp(_, _, _, _, _, _)
TraverseUp(st, concept_id, queue, visited, man, explicit) ==
    IF queue = <<>> THEN st
    ELSE IF Head(queue) \in visited
         THEN TraverseUp(st, concept_id, Tail(queue), visited, man, explicit)
    ELSE LET r == UpEdges(st, concept_id, upstream_graph(man, Head(queue)), 1,
                          Tail(queue), visited \cup {Head(queue)}, man, explicit)
         IN  TraverseUp(r.st, concept_id, r.queue, visited \cup {Head(queue)},
                        man, explicit)

\* `for downstream in downstream_graph.get(current, [])`
RECURSIVE DownEdges(_, _, _, _, _, _, _, _)
DownEdges(st, concept_id, downs, i, queue, visited, man, explicit) ==
    IF i > Len(downs) THEN [st |-> st, queue |-> queue]
    ELSE IF downs[i] \in visited \/ Has(explicit, downs[i])
         THEN DownEdges(st, concept_id, downs, i + 1, queue, visited, man, explicit)
    ELSE IF get_layer(man, downs[i]) = "gold"
         THEN DownEdges(Infer(st, concept_id, "gold_models", downs[i]),
                        concept_id, downs, i + 1, Append(queue, downs[i]),
                        visited, man, explicit)
    ELSE DownEdges(st, concept_id, downs, i + 1, queue, visited, man, explicit)

\* "Traverse downstream (gold)"
RECURSIVE TraverseDown(_, _, _, _, _, _)
TraverseDown(st, concept_id, queue, visited, man, explicit) ==
    IF queue = <<>> THEN st
    ELSE IF Head(queue) \in visited
         THEN TraverseDown(st, concept_id, Tail(queue), visited, man, explicit)
    ELSE LET r == DownEdges(st, concept_id, downstream_graph(man, Head(queue)), 1,
                            Tail(queue), visited \cup {Head(queue)}, man, explicit)
         IN  TraverseDown(r.st, concept_id, r.queue, visited \cup {Head(queue)},
                          man, explicit)

\* `for anchor_model, concept_id in explicit_models.items()`
RECURSIVE Anchors(_, _, _, _)
Anchors(st, explicit, i, man) ==
    IF i > Len(explicit) THEN st
    ELSE Anchors(
            TraverseDown(
                TraverseUp(st, explicit[i].val, <<explicit[i].key>>, {}, man, explicit),
                explicit[i].val, <<explicit[i].key>>, {}, man, explicit),
            explicit, i + 1, man)

infer_lineage(st, man) ==
    IF ~man.exists THEN st
    ELSE Anchors(st, ExplicitModels(st.concepts, 1, <<>>), 1, man)

\* StateBuilder.build
build(d, models, man) == infer_lineage(ProcessModels(parse(d), models, 1), man)

(***************************************************************************)
(* StateBuilder.validate_and_sync                                          *)
(*                                                                         *)
(* The passes thread an accumulator [st, messages, msg_counter].           *)
(***************************************************************************)
Message(id, severity, text, element_type, element_id) ==
    [id |-> id, severity |-> severity, text |-> text,
     element_type |-> element_type, element_id |-> element_id]

\* make_msg + messages.append
Emit(a, severity, text, element_type, element_id) ==
    [a EXCEPT
        !.msg_counter = @ + 1,
        !.messages = Append(@, Message("msg-" \o ToString(a.msg_counter + 1),
                                       severity, text, element_type, element_id))]

\* The body of `if from_missing:` / `if to_missing:` for the endpoint `missing`
\* of relationship rel_id; `which` is "Source" or "Target".
CreateGhost(a, rel_id, missing, which) ==
    LET a1 == [a EXCEPT !.st.concepts = Put(@, missing, GhostConcept(missing))]
        a2 == Emit(a1, "error",
                   "Relationship '" \o rel_id \o "' references non-existent concept '"
                       \o missing \o "'",
                   "relationship", rel_id)
        a3 == Emit(a2, "warning", "Stub created for concept '" \o missing \o "'",
                   "concept", missing)
        rel == Get(a3.st.relationships, rel_id)
    IN  [a3 EXCEPT !.st.relationships =
            Put(@, rel_id,
                [rel EXCEPT
                    !.validation_status = "error",
                    !.validation_messages =
                        Append(@, which \o " concept '" \o missing \o "' not defined")])]

\* Faulty variant: the target endpoint is tested after the source ghost was inserted
\* and only when the source was present.
GhostsFor_fromonly(a, rel_id) ==
    LET rel == Get(a.st.relationships, rel_id)
        from_missing == ~Has(a.st.concepts, rel.from_concept)
        to_missing == ~Has(a.st.concepts, rel.to_concept)
    IN  IF from_missing THEN CreateGhost(a, rel_id, rel.from_concept, "Source")
        ELSE IF to_missing THEN CreateGhost(a, rel_id, rel.to_concept, "Target")
        ELSE a

\* One iteration of pass 1: both endpoints are tested before either ghost is
\* inserted.
\* Faulty variant: the target endpoint gets a ghost whether or not it is missing.
GhostsFor_overwrite(a, rel_id) ==
    LET rel == Get(a.st.relationships, rel_id)
        from_missing == ~Has(a.st.concepts, rel.from_concept)
        a1 == IF from_missing
              THEN CreateGhost(a, rel_id, rel.from_concept, "Source") ELSE a
    IN  CreateGhost(a1, rel_id, rel.to_concept, "Target")

\* The body of the loop of pass 1 for the relationship rel_id.
GhostsFor(a, rel_id) ==
    LET rel == Get(a.st.relationships, rel_id)
        from_missing == ~Has(a.st.concepts, rel.from_concept)
        to_missing == ~Has(a.st.concepts, rel.to_concept)
        a1 == IF from_missing
              THEN CreateGhost(a, rel_id, rel.from_concept, "Source") ELSE a
    IN  IF to_missing THEN CreateGhost(a1, rel_id, rel.to_concept, "Target") ELSE a1

\* 1. Check relationships for missing concepts and create ghosts
RECURSIVE CheckRelationships(_, _)
CheckRelationships(a, i) ==
    IF i > Len(a.st.relationships) THEN a
    ELSE CheckRelationships(GhostsFor(a, a.st.relationships[i].key), i + 1)

\* concept.validation_status = "error"; validation_messages.append(text)
MarkConcept(concepts, concept_id, text) ==
    Put(concepts, concept_id,
        [Get(concepts, concept_id) EXCEPT
            !.validation_status = "error",
            !.validation_messages = Append(@, text)])

\* Faulty variant: only the later concept is marked, the first-seen one is left.
RECURSIVE CheckDuplicateNames_lateronly(_, _, _)
CheckDuplicateNames_lateronly(a, i, names_seen) ==
    IF i > Len(a.st.concepts) THEN a
    ELSE LET concept_id == a.st.concepts[i].key
             concept == a.st.concepts[i].val
         IN  IF concept.is_ghost
             THEN CheckDuplicateNames_lateronly(a, i + 1, names_seen)
             ELSE IF Has(names_seen, concept.name)
             THEN LET a1 == Emit(a, "error",
                                 "Duplicate concept name '" \o concept.name \o "'",
                                 "concept", concept_id)
                      c1 == MarkConcept(a1.st.concepts, concept_id,
                                        "Duplicate name: " \o concept.name)
                  IN  CheckDuplicateNames_lateronly([a1 EXCEPT !.st.concepts = c1],
                                                    i + 1, names_seen)
             ELSE CheckDuplicateNames_lateronly(a, i + 1,
                                      Put(names_seen, concept.name, concept_id))

\* 2. Check for duplicate concept names
RECURSIVE CheckDuplicateNames(_, _, _)
CheckDuplicateNames(a, i, names_seen) ==
    IF i > Len(a.st.concepts) THEN a
    ELSE LET concept_id == a.st.concepts[i].key
             concept == a.st.concepts[i].val
         IN  IF concept.is_ghost THEN CheckDuplicateNames(a, i + 1, names_seen)
             ELSE IF Has(names_seen, concept.name)
             THEN LET first_id == Get(names_seen, concept.name)
                      a1 == Emit(a, "error",
                                 "Duplicate concept name '" \o concept.name \o "'",
                                 "concept", concept_id)
                      c1 == MarkConcept(a1.st.concepts, concept_id,
                                        "Duplicate name: " \o concept.name)
                      c2 == IF Has(c1, first_id)
                            THEN MarkConcept(c1, first_id,
                                             "Duplicate name: " \o concept.name)
                            ELSE c1
                  IN  CheckDuplicateNames([a1 EXCEPT !.st.concepts = c2],
                                          i + 1, names_seen)
             ELSE CheckDuplicateNames(a, i + 1,
                                      Put(names_seen, concept.name, concept_id))

\* 3. Check for duplicate relationships
RECURSIVE CheckDuplicateRelationships(_, _, _)
CheckDuplicateRelationships(a, i, rel_keys_seen) ==
    IF i > Len(a.st.relationships) THEN a
    ELSE LET rel_id == a.st.relationships[i].key
             rel == a.st.relationships[i].val
             key == rel.from_concept \o ":" \o rel.verb \o ":" \o rel.to_concept
         IN  IF Has(rel_keys_seen, key) /\ Get(rel_keys_seen, key) # rel_id
             THEN LET a1 == Emit(a, "error",
                                 "Duplicate relationship '" \o rel_id \o "'",
                                 "relationship", rel_id)
                  IN  CheckDuplicateRelationships(
                        [a1 EXCEPT !.st.relationships =
                            Put(@, rel_id,
                                [rel EXCEPT
                                    !.validation_status = "error",
                                    !.validation_messages =
                                        Append(@, "Duplicate relationship")])],
                        i + 1, rel_keys_seen)
             ELSE CheckDuplicateRelationships(a, i + 1,
                                              Put(rel_keys_seen, key, rel_id))

\* StateBuilder._get_available_models
get_available_models(models) == {models[i].name : i \in 1..Len(models)}

\* `for model_name in all_models` of pass 4, for the concept at position ci.
RECURSIVE CheckConceptModels(_, _, _, _, _)
CheckConceptModels(a, ci, all_models, j, available_models) ==
    IF j > Len(all_models) THEN a
    ELSE IF all_models[j] \notin available_models
         THEN LET concept_id == a.st.concepts[ci].key
                  a1 == Emit(a, "warning",
                             "Model '" \o all_models[j] \o "' not found in project",
                             "concept", concept_id)
                  concept == a1.st.concepts[ci].val
              IN  CheckConceptModels(
                    [a1 EXCEPT !.st.concepts =
                        Put(@, concept_id,
                            [concept EXCEPT
                                !.validation_status =
                                    IF @ = "valid" THEN "warning" ELSE @,
                                !.validation_messages =
                                    Append(@, "Model '" \o all_models[j]
                                              \o "' not found")])],
                    ci, all_models, j + 1, available_models)
    ELSE CheckConceptModels(a, ci, all_models, j + 1, available_models)

\* 4. Check for models referenced but not found in project
RECURSIVE CheckMissingModels(_, _, _)
CheckMissingModels(a, i, available_models) ==
    IF i > Len(a.st.concepts) THEN a
    ELSE IF a.st.concepts[i].val.is_ghost
         THEN CheckMissingModels(a, i + 1, available_models)
    ELSE CheckMissingModels(
            CheckConceptModels(a, i,
                a.st.concepts[i].val.silver_models \o a.st.concepts[i].val.gold_models,
                1, available_models),
            i + 1, available_models)

\* Faulty variant: the `not` of `not concept.is_ghost` is dropped, so only ghosts count.
DomainConceptCount_ghosts(st, domain_id) ==
    Cardinality({i \in 1..Len(st.concepts) :
                    /\ ~Falsy(st.concepts[i].val.domain)
                    /\ st.concepts[i].val.is_ghost
                    /\ st.concepts[i].val.domain = domain_id})

\* Faulty variant: a concept with a domain counts for every domain.
DomainConceptCount_any(st, domain_id) ==
    Cardinality({i \in 1..Len(st.concepts) :
                    /\ ~Falsy(st.concepts[i].val.domain)
                    /\ ~st.concepts[i].val.is_ghost})

\* domain_concept_counts[domain_id] after the counting loop of pass 5.
DomainConceptCount(st, domain_id) ==
    Cardinality({i \in 1..Len(st.concepts) :
                    /\ ~Falsy(st.concepts[i].val.domain)
                    /\ ~st.concepts[i].val.is_ghost
                    /\ st.concepts[i].val.domain = domain_id})

\* 5. Check for empty domains
RECURSIVE CheckEmptyDomains(_, _)
CheckEmptyDomains(a, i) ==
    IF i > Len(a.st.domains) THEN a
    ELSE IF DomainConceptCount(a.st, a.st.domains[i].key) = 0
         THEN CheckEmptyDomains(
                Emit(a, "warning",
                     "Domain '" \o a.st.domains[i].key \o "' has no concepts",
                     "domain", a.st.domains[i].key),
                i + 1)
    ELSE CheckEmptyDomains(a, i + 1)

\* Faulty variant: ghosts are counted as well.
RealConceptCount_all(st) == Len(st.concepts)

\* len(real_concepts)
RealConceptCount(st) ==
    Cardinality({i \in 1..Len(st.concepts) : ~st.concepts[i].val.is_ghost})

\* 6. Add sync info message
SyncInfo(a) ==
    Emit(a, "info",
         "Synced " \o ToString(RealConceptCount(a.st)) \o " concepts from conceptual.yml",
         None, None)

\* sum(1 for m in messages if m.severity == severity)
CountSeverity(messages, severity) ==
    Cardinality({i \in 1..Len(messages) : messages[i].severity = severity})

\* Faulty variant: the warning count takes every message that is not an error, so
\* the info message is counted twice.
ValidationState_overlap(messages) ==
    [messages |-> messages,
     error_count |-> CountSeverity(messages, "error"),
     warning_count |-> Cardinality({i \in 1..Len(messages) :
                                      messages[i].severity # "error"}),
     info_count |-> CountSeverity(messages, "info")]

\* "Count by severity" and the returned ValidationState
ValidationState(messages) ==
    [messages |-> messages,
     error_count |-> CountSeverity(messages, "error"),
     warning_count |-> CountSeverity(messages, "warning"),
     info_count |-> CountSeverity(messages, "info")]

\* The passes in order; the result holds the mutated state and the messages.
SyncPasses(st, models) ==
    SyncInfo(
      CheckEmptyDomains(
        CheckMissingModels(
          CheckDuplicateRelationships(
            CheckDuplicateNames(
              CheckRelationships([st |-> st, messages |-> <<>>, msg_counter |-> 0], 1),
              1, <<>>),
            1, <<>>),
          1, get_available_models(models)),
        1))

(***************************************************************************)
(* Inputs: the documents, record lists and manifests the operations are    *)
(* run on.                                                                 *)
(***************************************************************************)
MaxConcepts == 2
MaxRels == 2
MaxRecords == 2
MaxSyncCalls == 2
MaxModels == 1

ConceptIds == {"customer", "order"}
ModelNames == {"dim_customer", "stg_customer"}

SeqsUpTo(S, n) == UNION {[1..k -> S] : k \in 0..n}

DistinctIds(items) == \A i, j \in 1..Len(items) : items[i].id = items[j].id => i = j

ConceptDecl(id, name, domain, owner) ==
    [id |-> id, name |-> name, domain |-> domain, owner |-> owner,
     definition |-> None, color |-> None, replaced_by |-> None]

DomainDecl(id, name) == [id |-> id, name |-> name, color |-> None, owner |-> None]

RelDecl(verb, name, from, to, cardinality, domains, domain) ==
    [verb |-> verb, name |-> name, from |-> from, to |-> to,
     cardinality |-> cardinality, definition |-> None, owner |-> None,
     domains |-> domains, domain |-> domain, custom_name |-> None]

Document(domains, concepts, relationships) ==
    [exists |-> TRUE, metadata |-> <<>>, domains |-> domains,
     concepts |-> concepts, relationships |-> relationships, groups |-> <<>>]

ModelRecord(name, layer, concept, realizes) ==
    [name |-> name, layer |-> layer, concept |-> concept, realizes |-> realizes,
     domain |-> None, description |-> None, path |-> None,
     tags |-> <<>>, databricks_tags |-> [domain |-> Absent, owner |-> Absent]]

Input(d, models, man) == [doc |-> d, records |-> models, manifest |-> man]

\* Documents exercising validate_and_sync: any declared concepts, display
\* names shared with another concept or with an undeclared endpoint, dangling
\* and shared relationship endpoints, used and unused domains.
SyncInputs ==
    {Input(Document(ds, cs, rs), <<>>, NoManifest) :
        ds \in {<<>>, <<DomainDecl("party", "Party")>>,
                <<DomainDecl("party", "Party"), DomainDecl("empty", None)>>},
        cs \in {c \in SeqsUpTo({ConceptDecl(id, n, dm, None) :
                                    id \in ConceptIds,
                                    n \in {None, "Customer", "order"},
                                    dm \in {None, "party"}}, MaxConcepts) :
                    /\ DistinctIds(c)
                    /\ \A i \in 1..Len(c) : c[i].name = "order" => c[i].id = "customer"},
        rs \in SeqsUpTo({RelDecl("places", None, f, t, None, Absent, Absent) :
                            f \in ConceptIds, t \in ConceptIds}, MaxRels)}

\* A manifest with a cycle between a gold and a silver model and a source.
CycleManifest ==
    [exists |-> TRUE,
     nodes |-> <<[name |-> "dim_customer", layer |-> "gold",
                  deps |-> <<[kind |-> "model", name |-> "stg_customer"],
                             [kind |-> "source", name |-> "raw.customers"]>>],
                 [name |-> "stg_customer", layer |-> "silver",
                  deps |-> <<[kind |-> "model", name |-> "dim_customer"]>>]>>]

\* A manifest whose gold model is downstream of a silver one not in any schema file.
ChainManifest ==
    [exists |-> TRUE,
     nodes |-> <<[name |-> "stg_orders", layer |-> "silver", deps |-> <<>>],
                 [name |-> "stg_customer", layer |-> "silver",
                  deps |-> <<[kind |-> "model", name |-> "stg_orders"]>>],
                 [name |-> "dim_customer", layer |-> "gold",
                  deps |-> <<[kind |-> "model", name |-> "stg_customer"]>>]>>]

Manifests == {NoManifest, CycleManifest, ChainManifest}

\* Documents and record lists exercising build: linked, mislinked, realizing
\* and unlinked records in every layer, repeated model names included.
BuildInputs ==
    {Input(Document(<<DomainDecl("party", "Party")>>, cs,
                    <<RelDecl("places", None, "customer", "order", None,
                              Absent, Absent)>>),
           ms, man) :
        cs \in {c \in SeqsUpTo({ConceptDecl(id, None, dm, "team-a") :
                                    id \in ConceptIds, dm \in {"party"}},
                               MaxConcepts) : DistinctIds(c)},
        ms \in SeqsUpTo({ModelRecord(nl[1], nl[2], c, Absent) :
                            nl \in {<<"dim_customer", None>>, <<"dim_customer", "silver">>,
                                    <<"dim_customer", "gold">>, <<"stg_customer", None>>,
                                    <<"stg_customer", "silver">>},
                            c \in {None} \cup ConceptIds}
                         \cup {ModelRecord(nlc[1], nlc[2], nlc[3],
                                           Lst(<<[neg |-> FALSE,
                                                  ref |-> "customer:places:order"]>>)) :
                                    nlc \in {<<"dim_customer", "gold", None>>,
                                             <<"dim_customer", "gold", "customer">>,
                                             <<"stg_customer", "silver", None>>}},
                        MaxRecords),
        man \in Manifests}

\* Documents exercising parse: every way of giving a relationship's verb,
\* cardinality and domains.
ParseInputs ==
    {Input(Document(<<DomainDecl("party", None)>>,
                    <<ConceptDecl("customer", "Customer", "party", "team-a"),
                      ConceptDecl("order", None, "", None)>>,
                    <<RelDecl(v, n, "customer", "order", card, ds, dm)>>),
           <<>>, NoManifest) :
        v \in {None, "places"}, n \in {None, "owns"},
        card \in {None, "1:1", "1:N", "N:M"},
        ds \in {Absent, Lst(<<"party">>)},
        dm \in {Absent, Str("party"), Str("")}}

\* Record lists exercising the ModelInfo entries: linked, unlinked and
\* unlayered records carrying no tags, flat tags, a structured domain (string
\* or list) or both, repeated model names included.
TagInputs ==
    {Input(Document(<<DomainDecl("party", "Party")>>,
                    <<ConceptDecl("customer", None, "party", "team-a")>>, <<>>),
           ms, NoManifest) :
        ms \in SeqsUpTo(
                {[ModelRecord(n, lc[1], lc[2], Absent) EXCEPT
                    !.tags = td[1], !.databricks_tags.domain = td[2]] :
                    n \in {"dim_customer"},
                    lc \in {<<"gold", "customer">>, <<"silver", None>>,
                            <<None, "customer">>},
                    td \in {<<<<>>, Absent>>,
                            <<<<<<"domain:", "party">>>>, Str("")>>,
                            <<<<>>, Str("sales")>>,
                            <<<<<<"domain:", "party">>, <<"owner:", "team-a">>,
                                <<"", "pii">>>>,
                              Lst(<<"sales", "risk">>)>>}},
                MaxRecords)}

Inputs == SyncInputs \cup BuildInputs \cup ParseInputs
         \cup {Input(NoDoc, <<>>, NoManifest)}

(***************************************************************************)
(* The pipeline: parse, build, validate_and_sync                           *)
(***************************************************************************)
Nothing == [none |-> TRUE]

NotBuilt == [built |-> FALSE]

Init ==
    /\ \/ \E in \in Inputs :
            /\ doc = in.doc
            /\ records = in.records
            /\ manifest = in.manifest
       \/ \E in \in TagInputs :
            /\ doc = in.doc
            /\ records = in.records
            /\ manifest = in.manifest
    /\ state = ProjectState
    /\ prev = NotBuilt
    /\ validation = Nothing
    /\ response = Nothing
    /\ calls = 0
    /\ validator = Nothing
    /\ diffrun = Nothing
    /\ synccmd = Nothing
    /\ tagrun = Nothing
    /\ pc = "start"

\* ConceptualModelParser(config).parse()
Parse ==
    /\ pc = "start"
    /\ state' = parse(doc)
    /\ pc' = "parsed"
    /\ UNCHANGED <<doc, records, manifest, prev, validation, response, calls, validator, diffrun, synccmd, tagrun>>

\* StateBuilder(config).build()
Build ==
    /\ pc = "start"
    /\ state' = build(doc, records, manifest)
    /\ pc' = "built"
    /\ UNCHANGED <<doc, records, manifest, prev, validation, response, calls, validator, diffrun, synccmd, tagrun>>

\* StateBuilder(config).build() run again on the same files.
Rebuild ==
    /\ pc = "built"
    /\ prev = NotBuilt
    /\ prev' = [built |-> TRUE, st |-> state]
    /\ state' = build(doc, records, manifest)
    /\ pc' = "built"
    /\ UNCHANGED <<doc, records, manifest, validation, response, calls, validator, diffrun, synccmd, tagrun>>

\* builder.validate_and_sync(state)
ValidateAndSync ==
    /\ pc \in {"built", "synced", "mutated", "read"}
    /\ calls < MaxSyncCalls
    /\ LET a == SyncPasses(state, records)
       IN  /\ state' = a.st
           /\ validation' = ValidationState(a.messages)
    /\ calls' = calls + 1
    /\ pc' = "synced"
    /\ UNCHANGED <<doc, records, manifest, prev, response, validator, diffrun, synccmd, tagrun>>

Next == Parse \/ Build \/ Rebuild \/ ValidateAndSync

Spec == Init /\ [][Next]_vars

(***************************************************************************)
(* Status reads between mutations of an in-memory ProjectState             *)
(***************************************************************************)
\* The derived statuses as the state serialiser reads them: concept.status for
\* every concept and rel.get_status(state.concepts) for every relationship.
\* Faulty variant: the statuses of the previous read are served again.
StatusResponse_cached(st) ==
    IF response # Nothing THEN response
    ELSE [concepts |-> [i \in 1..Len(st.concepts) |->
                          [key |-> st.concepts[i].key,
                           status |-> status(st.concepts[i].val)]],
          relationships |-> [i \in 1..Len(st.relationships) |->
                          [key |-> st.relationships[i].key,
                           status |-> get_status(st.relationships[i].val,
                                                 st.concepts)]]]

StatusResponse(st) ==
    [concepts |-> [i \in 1..Len(st.concepts) |->
                     [key |-> st.concepts[i].key,
                      status |-> status(st.concepts[i].val)]],
     relationships |-> [i \in 1..Len(st.relationships) |->
                     [key |-> st.relationships[i].key,
                      status |-> get_status(st.relationships[i].val, st.concepts)]]]

\* A ProjectState assembled in memory: two domains, each concept id declared
\* or not, with or without a domain, and one relationship between two ids.
StatusStates ==
    {[ProjectState EXCEPT
        !.domains = <<[key |-> "party",
                       val |-> DomainState("party", "Party", None, None)],
                      [key |-> "empty",
                       val |-> DomainState("empty", "empty", None, None)]>>,
        !.concepts = cs,
        !.relationships =
            <<[key |-> f \o ":places:" \o t,
               val |-> RelationshipState("places", f, t, "1:N", None, <<>>,
                                         None, None)]>>] :
        cs \in {c \in SeqsUpTo({[key |-> id,
                                 val |-> ConceptState(id, dm,
                                            IF id = "customer" THEN "team-a" ELSE None,
                                            None, None, None)] :
                                    id \in ConceptIds, dm \in {None, "", "party"}},
                                MaxConcepts) :
                    \A i, j \in 1..Len(c) : i < j => c[i].key # c[j].key},
        f \in ConceptIds, t \in ConceptIds}

InitStatus ==
    /\ doc = NoDoc
    /\ records = <<>>
    /\ manifest = NoManifest
    /\ state \in StatusStates
    /\ prev = NotBuilt
    /\ validation = Nothing
    /\ response = Nothing
    /\ calls = 0
    /\ validator = Nothing
    /\ diffrun = Nothing
    /\ synccmd = Nothing
    /\ tagrun = Nothing
    /\ pc = "mutated"

\* concept.models.append(model_name) unless already present
AppendModel ==
    /\ pc \in {"mutated", "read", "synced"}
    /\ \E i \in 1..Len(state.concepts), m \in ModelNames :
        /\ Len(state.concepts[i].val.models) < MaxModels
        /\ ~Contains(state.concepts[i].val.models, m)
        /\ state' = [state EXCEPT !.concepts[i].val.models = Append(@, m)]
    /\ pc' = "mutated"
    /\ UNCHANGED <<doc, records, manifest, prev, validation, response, calls, validator, diffrun, synccmd, tagrun>>

\* concept.domain = d (set) or concept.domain = None / "" (cleared)
SetDomain ==
    /\ pc \in {"mutated", "read", "synced"}
    /\ \E i \in 1..Len(state.concepts), d \in {None, "", "party"} :
        /\ state.concepts[i].val.domain # d
        /\ state' = [state EXCEPT !.concepts[i].val.domain = d]
    /\ pc' = "mutated"
    /\ UNCHANGED <<doc, records, manifest, prev, validation, response, calls, validator, diffrun, synccmd, tagrun>>

\* A read of every concept.status and rel.get_status(state.concepts).
ReadStatus ==
    /\ pc \in {"mutated", "synced"}
    /\ response' = StatusResponse(state)
    /\ pc' = "read"
    /\ UNCHANGED <<doc, records, manifest, state, prev, validation, calls, validator, diffrun, synccmd, tagrun>>

NextStatus == AppendModel \/ SetDomain \/ ValidateAndSync \/ ReadStatus

SpecStatus == InitStatus /\ [][NextStatus]_vars

(***************************************************************************)
(* git.py: the base state at a git ref, and the diff against it            *)
(***************************************************************************)
\* The relationship key and state as load_state_from_git_ref builds them:
\* verb = rel.get("verb", ""), domains = rel.get("domains", []) unconverted
\* (a string stays a string), custom_name = rel.get("name").
RECURSIVE BaseRelationships(_, _, _)
BaseRelationships(items, i, acc) ==
    IF i > Len(items) THEN acc
    ELSE LET rel == items[i]
             verb == GetOr(rel.verb, "")
             rel_key == rel.from \o ":" \o verb \o ":" \o rel.to
         IN  BaseRelationships(items, i + 1,
                Put(acc, rel_key,
                    RelationshipState(verb, rel.from, rel.to, rel.cardinality,
                                      rel.definition,
                                      IF rel.domains = Absent THEN <<>>
                                      ELSE rel.domains.v,
                                      rel.owner, rel.name)))

\* DomainState(name=domain_id, display_name=..., color=...): no owner is passed.
RECURSIVE BaseDomains(_, _, _)
BaseDomains(items, i, acc) ==
    IF i > Len(items) THEN acc
    ELSE BaseDomains(items, i + 1,
            Put(acc, items[i].id,
                DomainState(items[i].id, GetOr(items[i].name, items[i].id),
                            items[i].color, None)))

\* "Populate base state": base_data = yaml.safe_load(f) or {}.
BaseState(d) ==
    IF ~d.exists THEN ProjectState
    ELSE [ProjectState EXCEPT
            !.domains = BaseDomains(d.domains, 1, <<>>),
            !.concepts = ParseConcepts(d.concepts, 1, <<>>),
            !.relationships = BaseRelationships(d.relationships, 1, <<>>)]

\* The path of conceptual.yml relative to the project directory.
conceptual_rel_path == "models/conceptual/conceptual.yml"

GitNotFoundError == [kind |-> "GitNotFoundError"]
NotAGitRepoError == [kind |-> "NotAGitRepoError"]
RefNotFoundError(ref, file_path, stderr) ==
    [kind |-> "RefNotFoundError", ref |-> ref, file_path |-> file_path,
     stderr |-> stderr]
NoError == [kind |-> "none"]

\* Faulty variant: the file is read at the ref before the repository check.
load_state_from_git_ref_showfirst(env, base_ref, d) ==
    IF ~env.git_installed
    THEN [error |-> GitNotFoundError, show_attempted |-> FALSE, state |-> ProjectState]
    ELSE IF ~env.file_at_ref
    THEN [error |-> RefNotFoundError(base_ref, conceptual_rel_path, env.stderr),
          show_attempted |-> TRUE, state |-> ProjectState]
    ELSE IF ~env.is_repo
    THEN [error |-> NotAGitRepoError, show_attempted |-> TRUE, state |-> ProjectState]
    ELSE [error |-> NoError, show_attempted |-> TRUE, state |-> BaseState(d)]

\* load_state_from_git_ref: `git rev-parse --git-dir` (FileNotFoundError when
\* git cannot be started, CalledProcessError when it exits non-zero), then
\* `git show ref:path` (non-zero return code), then the base state.
load_state_from_git_ref(env, base_ref, d) ==
    IF ~env.git_installed
    THEN [error |-> GitNotFoundError, show_attempted |-> FALSE, state |-> ProjectState]
    ELSE IF ~env.is_repo
    THEN [error |-> NotAGitRepoError, show_attempted |-> FALSE, state |-> ProjectState]
    ELSE IF ~env.file_at_ref
    THEN [error |-> RefNotFoundError(base_ref, conceptual_rel_path, env.stderr),
          show_attempted |-> TRUE, state |-> ProjectState]
    ELSE [error |-> NoError, show_attempted |-> TRUE, state |-> BaseState(d)]

(***************************************************************************)
(* The diff engine (differ.compute_diff)                                   *)
(*                                                                         *)
(* A change record is [key, change_type, old_value, new_value,             *)
(* modified_fields]; a value that is not set is Nothing and                *)
(* modified_fields is a dict field -> <<old, new>>.                        *)
(***************************************************************************)
DomainFields == <<"display_name", "color", "owner">>
ConceptFields == <<"name", "domain", "owner", "definition", "color">>
RelationshipFields == <<"cardinality", "definition", "owner", "domains">>

Change(key, change_type, old_value, new_value, modified_fields) ==
    [key |-> key, change_type |-> change_type, old_value |-> old_value,
     new_value |-> new_value, modified_fields |-> modified_fields]

\* Faulty variant: every comparable field is reported, differing or not.
ModifiedFields_all(old, new, fields, i, acc) ==
    [k \in 1..Len(fields) |->
        [key |-> fields[k], val |-> <<old[fields[k]], new[fields[k]]>>]]

\* The comparable fields whose base and current values differ.
RECURSIVE ModifiedFields(_, _, _, _, _)
ModifiedFields(old, new, fields, i, acc) ==
    IF i > Len(fields) THEN acc
    ELSE IF old[fields[i]] # new[fields[i]]
         THEN ModifiedFields(old, new, fields, i + 1,
                             Put(acc, fields[i], <<old[fields[i]], new[fields[i]]>>))
    ELSE ModifiedFields(old, new, fields, i + 1, acc)

\* Faulty variant: a key missing from base is compared with an empty value
\* and reported as modified.
RECURSIVE DiffCurrent_modified(_, _, _, _, _)
DiffCurrent_modified(base, current, fields, i, acc) ==
    IF i > Len(current) THEN acc
    ELSE IF ~Has(base, current[i].key)
         THEN DiffCurrent_modified(base, current, fields, i + 1,
                Append(acc, Change(current[i].key, "modified", Nothing,
                                   current[i].val, <<>>)))
    ELSE LET mf == ModifiedFields(Get(base, current[i].key), current[i].val,
                                  fields, 1, <<>>)
         IN  DiffCurrent_modified(base, current, fields, i + 1,
                IF mf = <<>> THEN acc
                ELSE Append(acc, Change(current[i].key, "modified",
                                        Get(base, current[i].key),
                                        current[i].val, mf)))

\* Keys of current: added when base lacks the key, modified when a
\* comparable field differs, no record otherwise.
RECURSIVE DiffCurrent(_, _, _, _, _)
DiffCurrent(base, current, fields, i, acc) ==
    IF i > Len(current) THEN acc
    ELSE IF ~Has(base, current[i].key)
         THEN DiffCurrent(base, current, fields, i + 1,
                Append(acc, Change(current[i].key, "added", Nothing,
                                   current[i].val, <<>>)))
    ELSE LET mf == ModifiedFields(Get(base, current[i].key), current[i].val,
                                  fields, 1, <<>>)
         IN  DiffCurrent(base, current, fields, i + 1,
                IF mf = <<>> THEN acc
                ELSE Append(acc, Change(current[i].key, "modified",
                                        Get(base, current[i].key),
                                        current[i].val, mf)))

\* Faulty variant: every key of base is reported removed, also one current has.
DiffRemoved_all(base, current, i, acc) ==
    acc \o [k \in 1..Len(base) |->
                Change(base[k].key, "removed", base[k].val, Nothing, <<>>)]

\* Keys of base that current lacks: removed, with the base value.
RECURSIVE DiffRemoved(_, _, _, _)
DiffRemoved(base, current, i, acc) ==
    IF i > Len(base) THEN acc
    ELSE IF ~Has(current, base[i].key)
         THEN DiffRemoved(base, current, i + 1,
                Append(acc, Change(base[i].key, "removed", base[i].val,
                                   Nothing, <<>>)))
    ELSE DiffRemoved(base, current, i + 1, acc)

DiffMap(base, current, fields) ==
    DiffRemoved(base, current, 1, DiffCurrent(base, current, fields, 1, <<>>))

\* diff(base, current) -> ChangeSet
compute_diff(base, current) ==
    [domain_changes |-> DiffMap(base.domains, current.domains, DomainFields),
     concept_changes |-> DiffMap(base.concepts, current.concepts, ConceptFields),
     relationship_changes |-> DiffMap(base.relationships, current.relationships,
                                      RelationshipFields)]

\* has_changes: computed from the three lists.
has_changes(diff) ==
    \/ diff.domain_changes # <<>>
    \/ diff.concept_changes # <<>>
    \/ diff.relationship_changes # <<>>

(***************************************************************************)
(* The diff command: compute_diff_from_ref and compute_diff on the states  *)
(* it loaded                                                               *)
(***************************************************************************)
\* Working-tree and base documents: a domain with or without owner and color,
\* a concept whose owner changes, a concept that comes and goes, and a
\* relationship given by verb, by the legacy name, with a cardinality or
\* with the legacy single domain.
DiffDocs ==
    {Document(ds, cs, rs) :
        ds \in {<<>>, <<DomainDecl("party", "Party")>>,
                <<[DomainDecl("party", "Party") EXCEPT !.owner = "team-a",
                                                      !.color = "#E3F2FD"]>>},
        cs \in {<<>>, <<ConceptDecl("customer", "Customer", "party", "team-a")>>,
                <<ConceptDecl("customer", "Customer", "party", "team-b")>>,
                <<ConceptDecl("customer", "Customer", "party", "team-a"),
                  ConceptDecl("order", None, None, None)>>,
                <<ConceptDecl("customer", "Customer", "party", "team-b"),
                  ConceptDecl("order", None, None, None)>>},
        rs \in {<<>>,
                <<RelDecl("places", None, "customer", "order", None, Absent, Absent)>>,
                <<RelDecl("places", None, "customer", "order", "1:1",
                          Lst(<<"party">>), Absent)>>,
                <<RelDecl(None, "owns", "customer", "order", None, Absent, Absent)>>,
                <<RelDecl("places", None, "customer", "order", None, Absent,
                          Str("party"))>>}}

\* What git answers: whether the executable starts, whether the project
\* directory is inside a repository, whether the file exists at the ref.
GitEnvs ==
    {[git_installed |-> g, is_repo |-> r, file_at_ref |-> f,
      stderr |-> IF f THEN "" ELSE "fatal: invalid object name"] :
        g \in BOOLEAN, r \in BOOLEAN, f \in BOOLEAN}

DiffRun(env, base_doc) ==
    [env |-> env, base_ref |-> "main", base_doc |-> base_doc, phase |-> "init",
     by |-> "none", error |-> NoError, show_attempted |-> FALSE,
     base |-> ProjectState, old |-> ProjectState, new |-> ProjectState,
     result |-> Nothing]

InitDiff ==
    /\ doc \in DiffDocs
    /\ records \in {<<>>, <<ModelRecord("dim_customer", "gold", "customer", Absent)>>}
    /\ manifest = NoManifest
    /\ state = ProjectState
    /\ prev = NotBuilt
    /\ validation = Nothing
    /\ response = Nothing
    /\ calls = 0
    /\ validator = Nothing
    /\ \E env \in GitEnvs, base_doc \in DiffDocs :
        /\ (~(env.git_installed /\ env.is_repo /\ env.file_at_ref) => base_doc = doc)
        /\ diffrun = DiffRun(env, base_doc)
    /\ synccmd = Nothing
    /\ tagrun = Nothing
    /\ pc = "start"

\* compute_diff_from_ref(config, base_ref): build the current state, load the
\* base state (an error of the load is raised to the caller), diff them.
ComputeDiffFromRef ==
    /\ pc = "start"
    /\ diffrun # Nothing
    /\ diffrun.phase = "init"
    /\ LET current_state == build(doc, records, manifest)
           loaded == load_state_from_git_ref(diffrun.env, diffrun.base_ref,
                                             diffrun.base_doc)
       IN  /\ state' = current_state
           /\ IF loaded.error # NoError
              THEN /\ diffrun' = [diffrun EXCEPT
                                    !.phase = "failed",
                                    !.by = "compute_diff_from_ref",
                                    !.error = loaded.error,
                                    !.show_attempted = loaded.show_attempted]
                   /\ pc' = "failed"
              ELSE /\ diffrun' = [diffrun EXCEPT
                                    !.phase = "loaded",
                                    !.by = "compute_diff_from_ref",
                                    !.show_attempted = loaded.show_attempted,
                                    !.base = loaded.state,
                                    !.old = loaded.state,
                                    !.new = current_state,
                                    !.result = compute_diff(loaded.state,
                                                            current_state)]
                   /\ pc' = "built"
    /\ UNCHANGED <<doc, records, manifest, prev, validation, response, calls, validator, synccmd, tagrun>>

\* compute_diff(base, current) on any two of the states at hand.
ComputeDiff ==
    /\ pc \in {"built", "synced"}
    /\ diffrun # Nothing
    /\ diffrun.phase = "loaded"
    /\ \E args \in {<<diffrun.base, state>>, <<state, diffrun.base>>,
                    <<state, state>>, <<diffrun.base, diffrun.base>>} :
        diffrun' = [diffrun EXCEPT !.by = "compute_diff",
                                   !.old = args[1], !.new = args[2],
                                   !.result = compute_diff(args[1], args[2])]
    /\ UNCHANGED <<doc, records, manifest, state, prev, validation, response, calls, validator, synccmd, tagrun, pc>>

NextDiff == ComputeDiffFromRef \/ ComputeDiff \/ ValidateAndSync

SpecDiff == InitDiff /\ [][NextDiff]_vars

(***************************************************************************)
(* validator.py                                                            *)
(*                                                                         *)
(* A ValidationConfig is [orphan_models, unimplemented_concepts,           *)
(* missing_definitions, gold]: rule severities "error" / "warn" /          *)
(* "ignore", and in gold the same rules with None for "no override".       *)
(***************************************************************************)
ValidationConfig ==
    [orphan_models |-> "warn", unimplemented_concepts |-> "warn",
     missing_definitions |-> "ignore",
     gold |-> [orphan_models |-> None, unimplemented_concepts |-> None,
               missing_definitions |-> None]]

\* ValidationConfig.get_severity(rule, layer): the layer's override when it
\* has one, the rule's own severity otherwise.
get_severity(config, rule, layer) ==
    IF layer = "gold" /\ config.gold[rule] # None
    THEN config.gold[rule]
    ELSE config[rule]

\* Faulty variant: "ignore" is mapped to a warning instead of None.
rule_to_severity_noignore(rule) ==
    IF rule = "error" THEN "error" ELSE "warning"

\* _rule_to_severity
rule_to_severity(rule) ==
    IF rule = "error" THEN "error"
    ELSE IF rule = "warn" THEN "warning"
    ELSE None

ValidationIssue(severity, code, message, context) ==
    [severity |-> severity, code |-> code, message |-> message, context |-> context]

EndpointIssue(rel_id, missing_concept) ==
    ValidationIssue("error", "E002",
        "Relationship '" \o rel_id \o "' references non-existent concept '"
            \o missing_concept \o "'",
        [relationship |-> rel_id, missing_concept |-> missing_concept])

\* Faulty variant: the target is tested in an elif, so a relationship gets at
\* most one issue.
RECURSIVE validate_relationship_endpoints_elif(_, _, _)
validate_relationship_endpoints_elif(st, i, issues) ==
    IF i > Len(st.relationships) THEN issues
    ELSE LET rel_id == st.relationships[i].key
             rel == st.relationships[i].val
         IN  validate_relationship_endpoints_elif(st, i + 1,
                IF ~Has(st.concepts, rel.from_concept)
                THEN Append(issues, EndpointIssue(rel_id, rel.from_concept))
                ELSE IF ~Has(st.concepts, rel.to_concept)
                THEN Append(issues, EndpointIssue(rel_id, rel.to_concept))
                ELSE issues)

\* Validator._validate_relationship_endpoints (E002)
RECURSIVE validate_relationship_endpoints(_, _, _)
validate_relationship_endpoints(st, i, issues) ==
    IF i > Len(st.relationships) THEN issues
    ELSE LET rel_id == st.relationships[i].key
             rel == st.relationships[i].val
             with_from == IF ~Has(st.concepts, rel.from_concept)
                          THEN Append(issues, EndpointIssue(rel_id, rel.from_concept))
                          ELSE issues
             with_to == IF ~Has(st.concepts, rel.to_concept)
                        THEN Append(with_from, EndpointIssue(rel_id, rel.to_concept))
                        ELSE with_from
         IN  validate_relationship_endpoints(st, i + 1, with_to)

\* Validator._validate_orphan_models (W101)
validate_orphan_models(config, st, issues) ==
    LET severity == rule_to_severity(get_severity(config, "orphan_models", "gold"))
    IN  IF severity = None THEN issues
        ELSE issues \o
             [k \in 1..Len(st.orphan_models) |->
                ValidationIssue(severity, "W101",
                    "Model '" \o st.orphan_models[k].name
                        \o "' is not linked to any concept",
                    [model |-> st.orphan_models[k].name,
                     path |-> st.orphan_models[k].path])]

\* Validator._validate_unimplemented_concepts (W102)
validate_unimplemented_concepts(config, st, issues) ==
    LET severity == rule_to_severity(
                        get_severity(config, "unimplemented_concepts", "gold"))
        hits == SelectSeq(st.concepts,
                    LAMBDA e : ~e.val.is_ghost /\ e.val.models = <<>>)
    IN  IF severity = None THEN issues
        ELSE issues \o
             [k \in 1..Len(hits) |->
                ValidationIssue(severity, "W102",
                    "Concept '" \o hits[k].key \o "' has no implementing models",
                    [concept |-> hits[k].key, status |-> status(hits[k].val)])]

\* Validator._validate_missing_definitions (W104): concepts, then relationships
validate_missing_definitions(config, st, issues) ==
    LET severity == rule_to_severity(
                        get_severity(config, "missing_definitions", "gold"))
        chits == SelectSeq(st.concepts,
                    LAMBDA e : /\ ~(status(e.val) = "stub" \/ e.val.is_ghost)
                               /\ Falsy(e.val.definition))
        rhits == SelectSeq(st.relationships, LAMBDA e : Falsy(e.val.definition))
    IN  IF severity = None THEN issues
        ELSE issues \o
             [k \in 1..Len(chits) |->
                ValidationIssue(severity, "W104",
                    "Concept '" \o chits[k].key \o "' is missing a definition",
                    [concept |-> chits[k].key, status |-> status(chits[k].val)])]
             \o
             [k \in 1..Len(rhits) |->
                ValidationIssue(severity, "W104",
                    "Relationship '" \o rhits[k].key \o "' is missing a definition",
                    [relationship |-> rhits[k].key])]

\* Validator._validate_domain_references (W001)
validate_domain_references(st, issues) ==
    LET hits == SelectSeq(st.concepts,
                    LAMBDA e : /\ ~Falsy(e.val.domain)
                               /\ ~Has(st.domains, e.val.domain))
    IN  issues \o
        [k \in 1..Len(hits) |->
            ValidationIssue("warning", "W001",
                "Concept '" \o hits[k].key \o "' references unknown domain '"
                    \o hits[k].val.domain \o "'",
                [concept |-> hits[k].key, domain |-> hits[k].val.domain])]

\* ", ".join(lst)
RECURSIVE Join(_, _)
Join(lst, i) ==
    IF i > Len(lst) THEN ""
    ELSE IF i = Len(lst) THEN lst[i]
    ELSE lst[i] \o ", " \o Join(lst, i + 1)

\* str.capitalize() of a status
Capitalize(s) ==
    IF s = "stub" THEN "Stub" ELSE IF s = "draft" THEN "Draft" ELSE "Complete"

\* The enrichment fields of a concept that are falsy, in the order tested.
MissingOfConcept(concept) ==
    (IF Falsy(concept.domain) THEN <<"domain">> ELSE <<>>)
    \o (IF Falsy(concept.owner) THEN <<"owner">> ELSE <<>>)
    \o (IF Falsy(concept.definition) THEN <<"definition">> ELSE <<>>)

MissingOfRelationship(rel) ==
    IF Falsy(rel.definition) THEN <<"definition">> ELSE <<>>

\* Validator._check_stub_concepts, the loop over concepts (I001 / E201)
check_stub_concepts_concepts(st, no_drafts, issues) ==
    LET hits == SelectSeq(st.concepts,
                    LAMBDA e : /\ ~e.val.is_ghost
                               /\ status(e.val) \in {"stub", "draft"}
                               /\ MissingOfConcept(e.val) # <<>>)
    IN  issues \o
        [k \in 1..Len(hits) |->
            ValidationIssue(
                IF no_drafts THEN "error" ELSE "info",
                IF no_drafts THEN "E201" ELSE "I001",
                Capitalize(status(hits[k].val)) \o " concept '" \o hits[k].key
                    \o "' needs enrichment: missing "
                    \o Join(MissingOfConcept(hits[k].val), 1),
                [concept |-> hits[k].key,
                 missing |-> MissingOfConcept(hits[k].val),
                 status |-> status(hits[k].val)])]

\* Validator._check_stub_concepts, the loop over relationships (I002 / E202)
check_stub_concepts_relationships(st, no_drafts, issues) ==
    LET hits == SelectSeq(st.relationships,
                    LAMBDA e : get_status(e.val, st.concepts) = "stub")
    IN  issues \o
        [k \in 1..Len(hits) |->
            ValidationIssue(
                IF no_drafts THEN "error" ELSE "info",
                IF no_drafts THEN "E202" ELSE "I002",
                IF MissingOfRelationship(hits[k].val) # <<>>
                THEN "Stub relationship '" \o rel_name(hits[k].val)
                        \o "' needs enrichment: missing "
                        \o Join(MissingOfRelationship(hits[k].val), 1)
                ELSE "Stub relationship '" \o rel_name(hits[k].val)
                        \o "' has stub/ghost endpoint concepts",
                [relationship |-> rel_name(hits[k].val),
                 missing |-> MissingOfRelationship(hits[k].val),
                 status |-> "stub"])]

\* Validator._check_stub_concepts
check_stub_concepts(st, no_drafts, issues) ==
    check_stub_concepts_relationships(st, no_drafts,
        check_stub_concepts_concepts(st, no_drafts, issues))

\* The checks of Validator.validate() in the order they run, appending to issues.
RunChecks(config, st, no_drafts, issues) ==
    check_stub_concepts(st, no_drafts,
        validate_domain_references(st,
            validate_missing_definitions(config, st,
                validate_unimplemented_concepts(config, st,
                    validate_orphan_models(config, st,
                        validate_relationship_endpoints(st, 1, issues))))))

\* Validator(config, state, no_drafts): no issues yet, validate() not yet run.
\* log holds what has_errors() answered after each validate() call.
Validator(config, no_drafts) ==
    [config |-> config, no_drafts |-> no_drafts, issues |-> <<>>, runs |-> 0,
     log |-> <<>>, exit_code |-> -1]

\* Validator.has_errors()
has_errors(v) == \E k \in 1..Len(v.issues) : v.issues[k].severity = "error"

\* Faulty variant: the issue list is not reset, a call appends to the issues
\* of the calls before it.
validate_accumulate(v, st) ==
    [v EXCEPT !.issues = RunChecks(v.config, st, v.no_drafts, v.issues),
              !.runs = v.runs + 1]

\* Validator.validate(): self.issues = [] and then every check.
validate(v, st) ==
    [v EXCEPT !.issues = RunChecks(v.config, st, v.no_drafts, <<>>),
              !.runs = v.runs + 1]

(***************************************************************************)
(* Validation runs: the library calls on an in-memory state, and the       *)
(* validate command on the project files                                   *)
(***************************************************************************)
MaxValidateCalls == 2

Severities == {"error", "warn", "ignore"}

\* The default configuration, every rule at one severity, and the default
\* with a gold override for each rule.
ValidateConfigs ==
    {ValidationConfig}
    \cup {[ValidationConfig EXCEPT !.orphan_models = sev,
                                   !.unimplemented_concepts = sev,
                                   !.missing_definitions = sev] : sev \in Severities}
    \cup {[ValidationConfig EXCEPT !.gold = [orphan_models |-> "error",
                                             unimplemented_concepts |-> "ignore",
                                             missing_definitions |-> "warn"]]}

\* In-memory states: each concept id absent or present, with or without a
\* domain, with or without owner and definition, customer with or without a
\* model; no relationship or one, with or without a definition, between two
\* ids or from an id to itself; no orphan model or one.
ValidateStates ==
    {[ProjectState EXCEPT
        !.domains = <<[key |-> "party",
                       val |-> DomainState("party", "Party", None, None)]>>,
        !.concepts = cs,
        !.relationships = rs,
        !.orphan_models = os] :
        cs \in {c \in SeqsUpTo(
                    {[key |-> id,
                      val |-> [ConceptState(id, dm, en[1], en[2], None, None)
                                 EXCEPT !.models = ms]] :
                        id \in ConceptIds, dm \in {None, "party"},
                        en \in {<<None, None>>, <<"team-a", "Defined">>},
                        ms \in {<<>>, <<"dim_customer">>}},
                    MaxConcepts) :
                    /\ \A i, j \in 1..Len(c) : i < j => c[i].key # c[j].key
                    /\ \A i \in 1..Len(c) :
                        c[i].key = "order" => c[i].val.models = <<>>
                    /\ \A i \in 1..Len(c) : c[i].key = "order" => i = Len(c)},
        rs \in {<<>>,
                <<[key |-> "customer:places:order",
                   val |-> RelationshipState("places", "customer", "order", "1:N",
                                             None, <<>>, None, None)]>>,
                <<[key |-> "order:belongs_to:customer",
                   val |-> RelationshipState("belongs_to", "order", "customer",
                                             "N:1", "An order has a customer",
                                             <<>>, None, None)]>>,
                <<[key |-> "order:follows:order",
                   val |-> RelationshipState("follows", "order", "order", "1:N",
                                             None, <<>>, None, None)]>>},
        os \in {<<>>,
                <<OrphanModel("dim_orphan", None, None, "gold",
                              "models/gold/dim_orphan.sql")>>}}

\* The project files the validate command runs on.
CommandInputs ==
    {Input(d, ms, NoManifest) :
        d \in {NoDoc} \cup
              {Document(<<DomainDecl("party", "Party")>>, cs, rs) :
                 cs \in {<<>>,
                         <<ConceptDecl("customer", "Customer", "party", "team-a")>>,
                         <<ConceptDecl("customer", "Customer", None, None),
                           ConceptDecl("order", None, "party", None)>>},
                 rs \in {<<>>,
                         <<RelDecl("places", None, "customer", "order", None,
                                   Absent, Absent)>>}},
        ms \in {<<>>,
                <<ModelRecord("dim_customer", "gold", "customer", Absent)>>,
                <<ModelRecord("dim_orphan", "gold", None, Absent)>>}}

InitValidate ==
    /\ prev = NotBuilt
    /\ validation = Nothing
    /\ response = Nothing
    /\ calls = 0
    /\ diffrun = Nothing
    /\ synccmd = Nothing
    /\ tagrun = Nothing
    /\ \/ /\ doc = NoDoc
          /\ records = <<>>
          /\ manifest = NoManifest
          /\ state \in ValidateStates
          /\ \E config \in ValidateConfigs, no_drafts \in BOOLEAN :
                validator = Validator(config, no_drafts)
          /\ pc = "mutated"
       \/ /\ \E in \in CommandInputs :
                /\ doc = in.doc
                /\ records = in.records
                /\ manifest = in.manifest
          /\ state = ProjectState
          /\ \E config \in ValidateConfigs, no_drafts \in BOOLEAN :
                validator = Validator(config, no_drafts)
          /\ pc = "start"

\* validator.validate() followed by validator.has_errors()
Validate ==
    /\ pc \in {"mutated", "synced"}
    /\ validator # Nothing
    /\ validator.runs < MaxValidateCalls
    /\ LET v == validate(validator, state)
       IN  validator' = [v EXCEPT !.log = Append(@, has_errors(v))]
    /\ UNCHANGED <<doc, records, manifest, state, prev, validation, response, calls, diffrun, synccmd, tagrun, pc>>

\* The validate command: abort when conceptual.yml is missing; otherwise build
\* the state, run the validator and exit 1 if it has errors, 0 if not.
ValidateCommand ==
    /\ pc = "start"
    /\ validator # Nothing
    /\ IF ~doc.exists
       THEN /\ validator' = [validator EXCEPT !.exit_code = 1]
            /\ pc' = "aborted"
            /\ UNCHANGED state
       ELSE LET built == build(doc, records, manifest)
                v == validate(validator, built)
            IN  /\ state' = built
                /\ validator' = [v EXCEPT
                                    !.log = Append(@, has_errors(v)),
                                    !.exit_code = IF has_errors(v) THEN 1 ELSE 0]
                /\ pc' = "exited"
    /\ UNCHANGED <<doc, records, manifest, prev, validation, response, calls, diffrun, synccmd, tagrun>>

NextValidate == Validate \/ ValidateCommand \/ ValidateAndSync

SpecValidate == InitValidate /\ [][NextValidate]_vars

(***************************************************************************)
(* cli.py: the sync command                                                *)
(*                                                                         *)
(* A model name is handled through its segments: the leading pieces that   *)
(* are spelled like one of the prefixes the command strips, then the rest. *)
(***************************************************************************)
MaxSyncRuns == 2

StubPrefixes == <<"dim_", "fact_", "stg_", "fct_", "bridge_">>

\* The segments of the model names the command is run on.
Segments(name) ==
    CASE name = "dim_customer" -> <<"dim_", "customer">>
      [] name = "stg_customer" -> <<"stg_", "customer">>
      [] name = "fct_orders" -> <<"fct_", "orders">>
      [] name = "dim_fact_sales" -> <<"dim_", "fact_", "sales">>
      [] name = "fact_sales" -> <<"fact_", "sales">>
      [] OTHER -> <<name>>

RECURSIVE Concat(_, _)
Concat(segs, i) == IF i > Len(segs) THEN "" ELSE segs[i] \o Concat(segs, i + 1)

\* concept_id.replace("_", " ").title()
Title(concept_id) ==
    CASE concept_id = "customer" -> "Customer"
      [] concept_id = "orders" -> "Orders"
      [] concept_id = "fact_sales" -> "Fact Sales"
      [] concept_id = "sales" -> "Sales"
      [] OTHER -> concept_id

\* The concept id of an orphan: the name without the first prefix of the list
\* it starts with (the loop breaks at the first match).
StubConceptId(name) ==
    LET segs == Segments(name)
    IN  IF Len(segs) > 1 /\ Contains(StubPrefixes, segs[1])
        THEN Concat(Tail(segs), 1)
        ELSE name

\* conceptual_data["concepts"][concept_id] = {name, status, definition?, domain?}
StubDecl(concept_id, orphan) ==
    [id |-> concept_id, name |-> Title(concept_id), status |-> "stub",
     definition |-> IF Falsy(orphan.description) THEN None ELSE orphan.description,
     domain |-> IF Falsy(orphan.domain) THEN None ELSE orphan.domain,
     owner |-> None, color |-> None, replaced_by |-> None]

\* Faulty variant: the entry is written whether or not the id is already there.
RECURSIVE CreateStubs_overwrite(_, _, _, _)
CreateStubs_overwrite(concepts, orphans, i, stubs_created) ==
    IF i > Len(orphans) THEN [concepts |-> concepts, stubs_created |-> stubs_created]
    ELSE LET concept_id == StubConceptId(orphans[i].name)
             at == {k \in 1..Len(concepts) : concepts[k].id = concept_id}
         IN  CreateStubs_overwrite(
                IF at = {} THEN Append(concepts, StubDecl(concept_id, orphans[i]))
                ELSE [k \in 1..Len(concepts) |->
                        IF k \in at THEN StubDecl(concept_id, orphans[i])
                        ELSE concepts[k]],
                orphans, i + 1,
                Append(stubs_created, <<orphans[i].name, concept_id>>))

\* "Create stub for each orphan": skip an id already among the concepts.
RECURSIVE CreateStubs(_, _, _, _)
CreateStubs(concepts, orphans, i, stubs_created) ==
    IF i > Len(orphans) THEN [concepts |-> concepts, stubs_created |-> stubs_created]
    ELSE LET concept_id == StubConceptId(orphans[i].name)
         IN  IF \E k \in 1..Len(concepts) : concepts[k].id = concept_id
             THEN CreateStubs(concepts, orphans, i + 1, stubs_created)
             ELSE CreateStubs(Append(concepts, StubDecl(concept_id, orphans[i])),
                              orphans, i + 1,
                              Append(stubs_created, <<orphans[i].name, concept_id>>))

\* "Filter orphan models": all of them, or the one named by the model argument.
FilterOrphans(orphans, model) ==
    IF model = None THEN orphans
    ELSE SelectSeq(orphans, LAMBDA o : o.name = model)

SyncModelNames == {"dim_customer", "stg_customer", "fct_orders", "dim_fact_sales"}

\* The options of one invocation and what the last run did.
SyncCommandRun(create_stubs, model) ==
    [create_stubs |-> create_stubs, model |-> model, runs |-> 0, writes |-> 0,
     outcome |-> "none", orphans |-> <<>>, stubs_created |-> <<>>]

\* Project files for the sync command: conceptual.yml with no concept, with
\* customer, or with the concept one of the models would give; orphan,
\* linked and unlayered models.
InitSync ==
    /\ doc \in {NoDoc}
         \cup {Document(<<DomainDecl("party", "Party")>>, cs, <<>>) :
                cs \in {<<>>,
                        <<ConceptDecl("customer", "Customer", "party", "team-a")>>,
                        <<ConceptDecl("fact_sales", "Sales facts", None, None)>>}}
    /\ records \in SeqsUpTo(
            {[ModelRecord(n, lc[1], lc[2], Absent) EXCEPT
                !.description = dd[1], !.domain = dd[2]] :
                n \in SyncModelNames,
                lc \in {<<"gold", None>>, <<"gold", "customer">>},
                dd \in {<<None, None>>, <<"From the model", "party">>}},
            MaxRecords)
    /\ manifest = NoManifest
    /\ state = ProjectState
    /\ prev = NotBuilt
    /\ validation = Nothing
    /\ response = Nothing
    /\ calls = 0
    /\ validator = Nothing
    /\ diffrun = Nothing
    /\ tagrun = Nothing
    /\ \E create_stubs \in BOOLEAN, model \in {None, "dim_customer", "dim_missing"} :
        synccmd = SyncCommandRun(create_stubs, model)
    /\ pc = "start"

\* One run of `dbt-conceptual sync [--create-stubs] [--model M]`.
SyncCommand ==
    /\ synccmd # Nothing
    /\ synccmd.runs < MaxSyncRuns
    /\ pc \in {"start", "sync_done"}
    /\ IF ~doc.exists
       THEN /\ synccmd' = [synccmd EXCEPT !.runs = @ + 1, !.outcome = "aborted",
                                          !.orphans = <<>>, !.stubs_created = <<>>]
            /\ UNCHANGED <<doc, state>>
       ELSE LET built == build(doc, records, manifest)
                orphans == FilterOrphans(built.orphan_models, synccmd.model)
                made == CreateStubs(doc.concepts, orphans, 1, <<>>)
                outcome ==
                    IF orphans = <<>> THEN "no_orphans"
                    ELSE IF ~synccmd.create_stubs THEN "listed"
                    ELSE IF made.stubs_created = <<>> THEN "nothing_created"
                    ELSE "written"
            IN  /\ state' = built
                /\ doc' = IF outcome = "written"
                          THEN [doc EXCEPT !.concepts = made.concepts]
                          ELSE doc
                /\ synccmd' = [synccmd EXCEPT
                        !.runs = @ + 1,
                        !.writes = IF outcome = "written" THEN @ + 1 ELSE @,
                        !.outcome = outcome,
                        !.orphans = orphans,
                        !.stubs_created = IF outcome = "written"
                                          THEN made.stubs_created ELSE <<>>]
    /\ pc' = "sync_done"
    /\ UNCHANGED <<records, manifest, prev, validation, response, calls, validator, diffrun, tagrun>>

NextSync == SyncCommand

SpecSync == InitSync /\ [][NextSync]_vars

(***************************************************************************)
(* Properties of validate_and_sync                                         *)
(***************************************************************************)
DeclaredIds == IF doc.exists THEN {doc.concepts[i].id : i \in 1..Len(doc.concepts)}
               ELSE {}

\* C1: after validate_and_sync returns, both endpoints of every relationship
\* are keys of state.concepts, and an endpoint that conceptual.yml does not
\* declare is a ghost (is_ghost = TRUE).
C1_NoDanglingEndpoints ==
    pc = "synced" =>
        \A i \in 1..Len(state.relationships) :
            \A k \in {state.relationships[i].val.from_concept,
                      state.relationships[i].val.to_concept} :
                /\ Has(state.concepts, k)
                /\ k \notin DeclaredIds => Get(state.concepts, k).is_ghost

\* C1 witness: a synced state with a relationship from a missing key to itself
\* and a second relationship sharing that missing endpoint, its other endpoint
\* missing too.
C1_Witness ==
    /\ pc = "synced"
    /\ \E i, j \in 1..Len(state.relationships) :
        LET ri == state.relationships[i].val
            rj == state.relationships[j].val
        IN  /\ i # j
            /\ ri.from_concept = ri.to_concept
            /\ ri.from_concept \notin DeclaredIds
            /\ rj.from_concept = ri.from_concept
            /\ rj.to_concept # rj.from_concept
            /\ rj.to_concept \notin DeclaredIds
            /\ Get(state.concepts, ri.from_concept).is_ghost
            /\ Get(state.concepts, rj.to_concept).is_ghost

\* C2: in every ValidationState validate_and_sync returns, error_count +
\* warning_count + info_count = len(messages), and each count is the number of
\* messages of that severity.
C2_CountsMatchMessages ==
    pc = "synced" =>
        /\ validation.error_count + validation.warning_count
             + validation.info_count = Len(validation.messages)
        /\ validation.error_count =
             Cardinality({i \in 1..Len(validation.messages) :
                            validation.messages[i].severity = "error"})
        /\ validation.warning_count =
             Cardinality({i \in 1..Len(validation.messages) :
                            validation.messages[i].severity = "warning"})
        /\ validation.info_count =
             Cardinality({i \in 1..Len(validation.messages) :
                            validation.messages[i].severity = "info"})

\* C2 witness: a result holding messages of all three severities, several of
\* one of them.
C2_Witness ==
    /\ pc = "synced"
    /\ validation.error_count >= 2
    /\ validation.warning_count >= 3
    /\ validation.info_count = 1

\* The scenario of C8: customer (domain party, party declared), the single
\* relationship customer:places:order, order not declared, no models linked.
C8_Scenario ==
    /\ doc.exists
    /\ Len(doc.domains) = 1 /\ doc.domains[1].id = "party"
    /\ Len(doc.concepts) = 1
    /\ doc.concepts[1].id = "customer" /\ doc.concepts[1].domain = "party"
    /\ Len(doc.relationships) = 1
    /\ doc.relationships[1].from = "customer"
    /\ doc.relationships[1].to = "order"
    /\ RelVerb(doc.relationships[1]) = "places"
    /\ records = <<>>

\* C8: in that scenario the first validate_and_sync leaves order in
\* state.concepts as a ghost and returns exactly one error naming order as
\* missing and exactly one warning for the creation of order, with
\* error_count = 1 and warning_count = 1.
C8_GhostScenario ==
    (pc = "synced" /\ calls = 1 /\ C8_Scenario) =>
        /\ Has(state.concepts, "order")
        /\ Get(state.concepts, "order").is_ghost
        /\ Cardinality({i \in 1..Len(validation.messages) :
                /\ validation.messages[i].severity = "error"
                /\ validation.messages[i].text =
                     "Relationship 'customer:places:order' references non-existent concept 'order'"})
             = 1
        /\ Cardinality({i \in 1..Len(validation.messages) :
                /\ validation.messages[i].severity = "warning"
                /\ validation.messages[i].element_id = "order"
                /\ validation.messages[i].text = "Stub created for concept 'order'"})
             = 1
        /\ validation.error_count = 1
        /\ validation.warning_count = 1

\* C8 witness: the scenario after its first validate_and_sync.
C8_Witness ==
    /\ pc = "synced" /\ calls = 1 /\ C8_Scenario
    /\ Get(state.concepts, "order").is_ghost

(***************************************************************************)
(* Properties of the derived statuses                                      *)
(***************************************************************************)
\* C3 (as amended): every concept's status is one of stub, draft, complete and
\* is decided by (domain is None or empty, models is empty) alone: stub without
\* a domain, draft with a domain and no models, complete with a domain and
\* models; two concepts that agree on that pair have the same status whatever
\* their owner, is_ghost and validation fields.
C3_StatusFromDomainAndModels ==
    \A i \in 1..Len(state.concepts) :
        LET c == state.concepts[i].val
        IN  /\ status(c) \in {"stub", "draft", "complete"}
            /\ status(c) = "stub" <=> c.domain \in {None, ""}
            /\ status(c) = "draft" <=> (c.domain \notin {None, ""} /\ Len(c.models) = 0)
            /\ status(c) = "complete" <=> (c.domain \notin {None, ""} /\ Len(c.models) > 0)
            /\ \A j \in 1..Len(state.concepts) :
                LET c2 == state.concepts[j].val
                IN  (/\ (c.domain \in {None, ""}) = (c2.domain \in {None, ""})
                     /\ (Len(c.models) = 0) = (Len(c2.models) = 0))
                    => status(c) = status(c2)

\* C3 as stated: the status is decided by (domain is None, models is empty).
C3_Original ==
    \A i \in 1..Len(state.concepts) :
        LET c == state.concepts[i].val
        IN  /\ status(c) \in {"stub", "draft", "complete"}
            /\ status(c) = "stub" <=> c.domain = None
            /\ status(c) = "draft" <=> (c.domain # None /\ Len(c.models) = 0)
            /\ status(c) = "complete" <=> (c.domain # None /\ Len(c.models) > 0)
            /\ \A j \in 1..Len(state.concepts) :
                LET c2 == state.concepts[j].val
                IN  (/\ (c.domain = None) = (c2.domain = None)
                     /\ (Len(c.models) = 0) = (Len(c2.models) = 0))
                    => status(c) = status(c2)

\* C3 witness: a ghost and a declared concept that differ in owner, is_ghost
\* and validation fields, both complete, after mutations.
C3_Witness ==
    \E i, j \in 1..Len(state.concepts) :
        LET c == state.concepts[i].val
            c2 == state.concepts[j].val
        IN  /\ c.is_ghost /\ ~c2.is_ghost
            /\ c.owner # c2.owner
            /\ c.validation_status # c2.validation_status
            /\ status(c) = "complete" /\ status(c2) = "complete"

C5_ReadsAreCurrent ==
    pc = "read" =>
        LET Derived(c) == IF c.domain \in {None, ""} THEN "stub"
                          ELSE IF Len(c.models) = 0 THEN "draft"
                          ELSE "complete"
            StubEnd(k) == \/ ~Has(state.concepts, k)
                          \/ Get(state.concepts, k).is_ghost
                          \/ Derived(Get(state.concepts, k)) = "stub"
        IN  /\ response.concepts =
                 [i \in 1..Len(state.concepts) |->
                    [key |-> state.concepts[i].key,
                     status |-> Derived(state.concepts[i].val)]]
            /\ response.relationships =
                 [i \in 1..Len(state.relationships) |->
                    [key |-> state.relationships[i].key,
                     status |->
                        IF StubEnd(state.relationships[i].val.from_concept)
                           \/ StubEnd(state.relationships[i].val.to_concept)
                        THEN "stub" ELSE "complete"]]

\* C5 witness: a read, made after a validate_and_sync run and after a model
\* was appended to a concept, that reports a relationship complete.
C5_Witness ==
    /\ pc = "read"
    /\ calls = 1
    /\ \E i \in 1..Len(state.relationships) :
        /\ response.relationships[i].status = "complete"
        /\ \E j \in 1..Len(state.concepts) :
            /\ Len(state.concepts[j].val.models) > 0
            /\ state.concepts[j].val.validation_status = "valid"

(***************************************************************************)
(* Properties of parse and build                                           *)
(***************************************************************************)
\* C6 (as stated): building twice from the same document and model records
\* gives identical concept model lists and an identical orphan list, and in
\* every build result no name occurs twice in a concept's model list nor in
\* the orphan list, also when the records repeat a model name.
C6_IdempotentNoDuplicates ==
    (pc = "built" /\ prev.built) =>
        /\ state.concepts = prev.st.concepts
        /\ state.orphan_models = prev.st.orphan_models
        /\ \A i \in 1..Len(state.concepts) :
            /\ NoDup(state.concepts[i].val.silver_models)
            /\ NoDup(state.concepts[i].val.gold_models)
            /\ NoDup(state.concepts[i].val.bronze_models)
            /\ NoDup(state.concepts[i].val.models)
        /\ NoDup([i \in 1..Len(state.orphan_models) |-> state.orphan_models[i].name])

\* C7 (as stated): every parsed relationship stores "1:1" when the document
\* declares exactly "1:1" and "1:N" otherwise (declared "1:N", another string,
\* or nothing declared).  Of several declarations with one id the last counts.
C7_CardinalityNormalised ==
    (pc = "parsed" /\ doc.exists) =>
        \A i \in 1..Len(doc.relationships) :
            LET RelId(r) == r.from \o ":" \o RelVerb(r) \o ":" \o r.to
                decl == doc.relationships[i]
                last == \A j \in (i + 1)..Len(doc.relationships) :
                            RelId(doc.relationships[j]) # RelId(decl)
            IN  last =>
                /\ Has(state.relationships, RelId(decl))
                /\ Get(state.relationships, RelId(decl)).cardinality
                     = IF decl.cardinality = "1:1" THEN "1:1" ELSE "1:N"

\* C9 (as amended): after build the orphan list holds, in record order,
\* exactly the records that have no concept link, no realizes entry and layer
\* silver or gold; a record whose concept link names an undeclared key is not
\* in the orphan list, and a name is in a concept's silver or gold list only
\* if a record of that layer links it to that concept or lineage inference
\* added it (it is then in inferred_models).
C9_OrphanTracking ==
    pc = "built" =>
        LET orphans == SelectSeq(records,
                          LAMBDA r : /\ r.concept = None
                                     /\ r.realizes = Absent
                                     /\ r.layer \in {"silver", "gold"})
            Linked(name, layer, concept_id) ==
                \E k \in 1..Len(records) :
                    /\ records[k].name = name
                    /\ records[k].layer = layer
                    /\ records[k].concept = concept_id
        IN  /\ [i \in 1..Len(state.orphan_models) |-> state.orphan_models[i].name]
                 = [i \in 1..Len(orphans) |-> orphans[i].name]
            /\ \A i \in 1..Len(state.concepts) :
                LET c == state.concepts[i] IN
                /\ \A n \in SeqToSet(c.val.silver_models) :
                        Linked(n, "silver", c.key) \/ Contains(c.val.inferred_models, n)
                /\ \A n \in SeqToSet(c.val.gold_models) :
                        Linked(n, "gold", c.key) \/ Contains(c.val.inferred_models, n)

\* C9 as stated: a record is in the orphan list iff its concept link is
\* absent, and a record linked to an undeclared key is in no concept's model
\* list and not in the orphan list.
C9_Original ==
    pc = "built" =>
        \A k \in 1..Len(records) :
            LET r == records[k]
                InOrphans == \E i \in 1..Len(state.orphan_models) :
                                state.orphan_models[i].name = r.name
            IN  /\ (\A j \in 1..Len(records) :
                        records[j].name = r.name => records[j].concept = r.concept)
                    => (InOrphans <=> r.concept = None)
                /\ (r.concept # None /\ ~Has(state.concepts, r.concept)
                    /\ \A j \in 1..Len(records) :
                            records[j].name = r.name => j = k)
                    => /\ ~InOrphans
                       /\ \A i \in 1..Len(state.concepts) :
                            /\ ~Contains(state.concepts[i].val.silver_models, r.name)
                            /\ ~Contains(state.concepts[i].val.gold_models, r.name)

\* C9 witness: a built state whose records hold an orphan, a record linked
\* to an undeclared concept, and a linked record next to declared concepts.
C9_Witness ==
    /\ pc = "built"
    /\ Len(state.orphan_models) = 1
    /\ \E k \in 1..Len(records) :
        /\ records[k].concept # None
        /\ ~Has(state.concepts, records[k].concept)
        /\ records[k].layer \in {"silver", "gold"}
    /\ Len(state.concepts) > 0

\* C10: build creates no ghosts and writes no validation fields: the concept
\* keys are those of the document, in its order, every concept is not a ghost,
\* is "valid" with no validation messages, and differs from the parsed
\* concept in nothing but its model lists.
C10_BuildFrame ==
    pc = "built" =>
        LET p == parse(doc)
        IN  /\ Keys(state.concepts) = DeclaredIds
            /\ Len(state.concepts) = Len(p.concepts)
            /\ \A i \in 1..Len(state.concepts) :
                LET c == state.concepts[i].val IN
                /\ state.concepts[i].key = p.concepts[i].key
                /\ c.is_ghost = FALSE
                /\ c.validation_status = "valid"
                /\ c.validation_messages = <<>>
                /\ [c EXCEPT !.models = <<>>, !.bronze_models = <<>>,
                             !.silver_models = <<>>, !.gold_models = <<>>,
                             !.inferred_models = <<>>] = p.concepts[i].val

\* C10 witness: a build that linked a model to a declared concept while a
\* record links an undeclared concept and a relationship endpoint is
\* undeclared.
C10_Witness ==
    /\ pc = "built"
    /\ \E i \in 1..Len(state.concepts) : Len(state.concepts[i].val.gold_models) > 0
    /\ \E k \in 1..Len(records) :
        records[k].concept # None /\ records[k].concept \notin DeclaredIds
    /\ \E i \in 1..Len(state.relationships) :
        state.relationships[i].val.to_concept \notin DeclaredIds

(***************************************************************************)
(* Properties of the diff engine and of the base-state loader              *)
(***************************************************************************)
\* C11: the diff of a ProjectState with itself has empty domain, concept and
\* relationship change lists, and has_changes is false.
C11_SelfDiffEmpty ==
    (diffrun # Nothing /\ diffrun.by = "compute_diff" /\ diffrun.old = diffrun.new) =>
        /\ diffrun.result.domain_changes = <<>>
        /\ diffrun.result.concept_changes = <<>>
        /\ diffrun.result.relationship_changes = <<>>
        /\ has_changes(diffrun.result) = FALSE

\* C11 witness: a validated state with domains, concepts (a ghost among them)
\* and relationships was diffed with itself.
C11_Witness ==
    /\ diffrun # Nothing
    /\ diffrun.by = "compute_diff"
    /\ diffrun.old = state /\ diffrun.new = state
    /\ pc = "synced"
    /\ state.domains # <<>>
    /\ state.relationships # <<>>
    /\ \E i \in 1..Len(state.concepts) : state.concepts[i].val.is_ghost
    /\ \E i \in 1..Len(state.concepts) : ~state.concepts[i].val.is_ghost

\* C12 (as stated): when the conceptual.yml at the base ref has the content of
\* the working-tree file (domains with or without owner and color, concepts,
\* relationships given by verb or by the legacy name, with or without
\* cardinality) and there are no pipeline models, compute_diff_from_ref
\* reports no changes: the loaded base state and the built state have the
\* same keys and equal comparable fields.
C12_SameFileNoChanges ==
    (/\ diffrun # Nothing
     /\ diffrun.by = "compute_diff_from_ref"
     /\ diffrun.phase = "loaded"
     /\ diffrun.base_doc = doc
     /\ \A i \in 1..Len(doc.relationships) : doc.relationships[i].domain = Absent
     /\ records = <<>>) =>
        LET Same(base, current, fields) ==
                /\ Keys(base) = Keys(current)
                /\ \A k \in Keys(base) : \A i \in 1..Len(fields) :
                        Get(base, k)[fields[i]] = Get(current, k)[fields[i]]
        IN  /\ has_changes(diffrun.result) = FALSE
            /\ Same(diffrun.old.domains, diffrun.new.domains,
                    <<"display_name", "color", "owner">>)
            /\ Same(diffrun.old.concepts, diffrun.new.concepts,
                    <<"name", "domain", "owner", "definition", "color">>)
            /\ Same(diffrun.old.relationships, diffrun.new.relationships,
                    <<"cardinality", "definition", "owner", "domains">>)

\* C13: in every diff, for each of the three maps, a key only in current has
\* exactly one change record, of type added, carrying the current value; a key
\* only in base has exactly one, of type removed, carrying the base value;
\* neither has a modified record.
C13_AddedRemoved ==
    (diffrun # Nothing /\ diffrun.phase = "loaded") =>
        LET Ok(changes, base, current) ==
                /\ \A k \in Keys(current) \ Keys(base) :
                    /\ Cardinality({i \in 1..Len(changes) : changes[i].key = k}) = 1
                    /\ \A i \in 1..Len(changes) : changes[i].key = k =>
                        /\ changes[i].change_type = "added"
                        /\ changes[i].new_value = Get(current, k)
                /\ \A k \in Keys(base) \ Keys(current) :
                    /\ Cardinality({i \in 1..Len(changes) : changes[i].key = k}) = 1
                    /\ \A i \in 1..Len(changes) : changes[i].key = k =>
                        /\ changes[i].change_type = "removed"
                        /\ changes[i].old_value = Get(base, k)
        IN  /\ Ok(diffrun.result.domain_changes, diffrun.old.domains,
                  diffrun.new.domains)
            /\ Ok(diffrun.result.concept_changes, diffrun.old.concepts,
                  diffrun.new.concepts)
            /\ Ok(diffrun.result.relationship_changes, diffrun.old.relationships,
                  diffrun.new.relationships)

\* C13 witness: a diff in which a concept was added, a relationship removed
\* and a domain added.
C13_Witness ==
    /\ diffrun # Nothing
    /\ diffrun.phase = "loaded"
    /\ \E i \in 1..Len(diffrun.result.concept_changes) :
        diffrun.result.concept_changes[i].change_type = "added"
    /\ \E i \in 1..Len(diffrun.result.relationship_changes) :
        diffrun.result.relationship_changes[i].change_type = "removed"
    /\ \E i \in 1..Len(diffrun.result.domain_changes) :
        diffrun.result.domain_changes[i].change_type = "added"

\* C14: in every diff a key present in both maps has a modified record iff
\* one of the comparable fields of its type differs, and then modified_fields
\* holds exactly the differing fields, each with (base value, current value);
\* a key whose comparable fields are equal has no record, whatever its linked
\* models and validation fields.  With base = {customer owned by team-a} and
\* current = {customer owned by team-b, order} the concept changes are one
\* modified customer with {"owner": ("team-a", "team-b")} and one added order.
C14_ModifiedFields ==
    (diffrun # Nothing /\ diffrun.phase = "loaded") =>
        LET Ok(changes, base, current, F) ==
                \A k \in Keys(base) \cap Keys(current) :
                    LET D == {f \in F : Get(base, k)[f] # Get(current, k)[f]}
                        recs == {i \in 1..Len(changes) : changes[i].key = k}
                    IN  /\ D = {} => recs = {}
                        /\ D # {} =>
                            /\ Cardinality(recs) = 1
                            /\ \A i \in recs :
                                /\ changes[i].change_type = "modified"
                                /\ Keys(changes[i].modified_fields) = D
                                /\ \A f \in D :
                                    Get(changes[i].modified_fields, f)
                                        = <<Get(base, k)[f], Get(current, k)[f]>>
            Scenario ==
                /\ Keys(diffrun.old.concepts) = {"customer"}
                /\ Keys(diffrun.new.concepts) = {"customer", "order"}
                /\ Get(diffrun.old.concepts, "customer").owner = "team-a"
                /\ Get(diffrun.new.concepts, "customer").owner = "team-b"
        IN  /\ Ok(diffrun.result.domain_changes, diffrun.old.domains,
                  diffrun.new.domains, {"display_name", "color", "owner"})
            /\ Ok(diffrun.result.concept_changes, diffrun.old.concepts,
                  diffrun.new.concepts,
                  {"name", "domain", "owner", "definition", "color"})
            /\ Ok(diffrun.result.relationship_changes, diffrun.old.relationships,
                  diffrun.new.relationships,
                  {"cardinality", "definition", "owner", "domains"})
            /\ Scenario =>
                /\ Len(diffrun.result.concept_changes) = 2
                /\ \E i, j \in 1..2 :
                    /\ diffrun.result.concept_changes[i].key = "order"
                    /\ diffrun.result.concept_changes[i].change_type = "added"
                    /\ diffrun.result.concept_changes[j].key = "customer"
                    /\ diffrun.result.concept_changes[j].change_type = "modified"
                    /\ diffrun.result.concept_changes[j].modified_fields
                         = <<[key |-> "owner", val |-> <<"team-a", "team-b">>]>>

\* C14 witness: the owner of customer changed from team-a to team-b, order
\* was added, and the current customer also has a linked model the base lacks.
C14_Witness ==
    /\ diffrun # Nothing
    /\ diffrun.phase = "loaded"
    /\ Keys(diffrun.old.concepts) = {"customer"}
    /\ Keys(diffrun.new.concepts) = {"customer", "order"}
    /\ Get(diffrun.old.concepts, "customer").owner = "team-a"
    /\ Get(diffrun.new.concepts, "customer").owner = "team-b"
    /\ Get(diffrun.new.concepts, "customer").gold_models # <<>>
    /\ Get(diffrun.old.concepts, "customer").gold_models = <<>>

\* C15: compute_diff_from_ref ends with GitNotFoundError exactly when git
\* cannot be started, with NotAGitRepoError exactly when git starts and the
\* repository check fails, and with RefNotFoundError (carrying the ref, the
\* file path and git's stderr) exactly when both succeed and the file cannot
\* be read at the ref; the file is read only after the repository check
\* succeeded, and a failed load yields no diff.
C15_GitErrorKinds ==
    (diffrun # Nothing /\ diffrun.by = "compute_diff_from_ref") =>
        LET env == diffrun.env IN
        /\ diffrun.error.kind = "GitNotFoundError" <=> ~env.git_installed
        /\ diffrun.error.kind = "NotAGitRepoError"
             <=> (env.git_installed /\ ~env.is_repo)
        /\ diffrun.error.kind = "RefNotFoundError"
             <=> (env.git_installed /\ env.is_repo /\ ~env.file_at_ref)
        /\ diffrun.error.kind = "RefNotFoundError" =>
             /\ diffrun.error.ref = diffrun.base_ref
             /\ diffrun.error.file_path = "models/conceptual/conceptual.yml"
             /\ diffrun.error.stderr = env.stderr
        /\ diffrun.error.kind = "none"
             <=> (env.git_installed /\ env.is_repo /\ env.file_at_ref)
        /\ diffrun.show_attempted <=> (env.git_installed /\ env.is_repo)
        /\ diffrun.error.kind # "none" =>
             (diffrun.phase = "failed" /\ diffrun.result = Nothing /\ pc = "failed")

\* C15 witness: outside a repository, with the file also missing at the ref,
\* the run failed with NotAGitRepoError.
C15_Witness ==
    /\ diffrun # Nothing
    /\ diffrun.phase = "failed"
    /\ ~diffrun.env.is_repo /\ ~diffrun.env.file_at_ref
    /\ diffrun.error = NotAGitRepoError

(***************************************************************************)
(* Properties of the validator                                             *)
(***************************************************************************)
HasError(issues) == \E k \in 1..Len(issues) : issues[k].severity = "error"

\* A step in which validate() ran leaves has_errors() equal to "the checks on
\* the state it ran on, started from an empty list, gave an error"; a step in
\* which it did not run leaves has_errors() as it was.
LastCallDecides ==
    /\ validator'.runs = validator.runs + 1 =>
         (has_errors(validator') <=>
            HasError(RunChecks(validator.config, state', validator.no_drafts, <<>>)))
    /\ validator'.runs = validator.runs =>
         (has_errors(validator') <=> has_errors(validator))

\* C16 as stated: after any number of validate() calls has_errors() is true
\* iff the most recent call's issues hold an error, and the validate command
\* ends with status 1 exactly when has_errors() is true and 0 otherwise.
C16_Original ==
    [][/\ LastCallDecides
       /\ pc' \in {"exited", "aborted"} =>
            /\ validator'.exit_code \in {0, 1}
            /\ validator'.exit_code = 1 <=> has_errors(validator')]_vars

\* C16 amended: has_errors() is decided by the most recent validate() call
\* alone; when conceptual.yml exists the validate command ends with status 1
\* exactly when has_errors() is true and 0 otherwise; when it is missing the
\* command aborts with status 1 and validate() is never run.
C16_LastCallDecides ==
    [][/\ LastCallDecides
       /\ pc' = "exited" =>
            /\ validator'.runs = 1
            /\ validator'.exit_code \in {0, 1}
            /\ validator'.exit_code = 1 <=> has_errors(validator')
       /\ pc' = "aborted" =>
            /\ ~doc.exists
            /\ validator'.runs = 0
            /\ validator'.exit_code = 1]_vars

\* A first call found an error, the state was repaired by validate_and_sync,
\* and the second call found none.
C16_Witness ==
    /\ pc = "synced"
    /\ validator.runs = 2
    /\ validator.log = <<TRUE, FALSE>>
    /\ ~has_errors(validator)

\* The endpoints of relationships whose key is not in st.concepts, in the
\* order of the relationships, from before to.
RECURSIVE DanglingEndpoints(_, _)
DanglingEndpoints(st, i) ==
    IF i > Len(st.relationships) THEN <<>>
    ELSE LET rel == st.relationships[i].val
             rel_id == st.relationships[i].key
         IN  (IF ~Has(st.concepts, rel.from_concept)
              THEN <<[relationship |-> rel_id, missing_concept |-> rel.from_concept]>>
              ELSE <<>>)
             \o (IF ~Has(st.concepts, rel.to_concept)
                 THEN <<[relationship |-> rel_id, missing_concept |-> rel.to_concept]>>
                 ELSE <<>>)
             \o DanglingEndpoints(st, i + 1)

IssuesWithCode(issues, code) == SelectSeq(issues, LAMBDA x : x.code = code)

\* C17: under every configuration (every rule at ignore included) a validate()
\* call emits exactly one E002 issue of severity error per relationship
\* endpoint missing from state.concepts, from and to counted separately, and
\* has_errors() is then true whenever there is such an endpoint.
C17_DanglingEndpointsAreErrors ==
    [][validator'.runs = validator.runs + 1 =>
        LET e002 == IssuesWithCode(validator'.issues, "E002")
            dangling == DanglingEndpoints(state', 1)
        IN  /\ Len(e002) = Len(dangling)
            /\ \A k \in 1..Len(e002) :
                /\ e002[k].severity = "error"
                /\ e002[k].context = dangling[k]
            /\ dangling # <<>> => has_errors(validator')]_vars

\* With every rule at ignore and an orphan model in the state, a relationship
\* with both endpoints undeclared gave two E002 errors and no warning.
C17_Witness ==
    /\ pc = "mutated"
    /\ validator.runs = 1
    /\ validator.config.orphan_models = "ignore"
    /\ validator.config.unimplemented_concepts = "ignore"
    /\ validator.config.missing_definitions = "ignore"
    /\ state.orphan_models # <<>>
    /\ Len(DanglingEndpoints(state, 1)) = 2
    /\ Len(IssuesWithCode(validator.issues, "E002")) = 2
    /\ \A k \in 1..Len(validator.issues) : validator.issues[k].severity # "warning"
    /\ has_errors(validator)

ConfigurableRules == <<[rule |-> "orphan_models", code |-> "W101"],
                       [rule |-> "unimplemented_concepts", code |-> "W102"],
                       [rule |-> "missing_definitions", code |-> "W104"]>>

\* How many things in st a configurable rule is about.
RuleCases(st, rule) ==
    IF rule = "orphan_models" THEN Len(st.orphan_models)
    ELSE IF rule = "unimplemented_concepts"
    THEN Cardinality({i \in 1..Len(st.concepts) :
                        /\ ~st.concepts[i].val.is_ghost
                        /\ Len(st.concepts[i].val.models) = 0})
    ELSE Cardinality({i \in 1..Len(st.concepts) :
                        /\ ~st.concepts[i].val.is_ghost
                        /\ status(st.concepts[i].val) # "stub"
                        /\ Falsy(st.concepts[i].val.definition)})
         + Cardinality({i \in 1..Len(st.relationships) :
                        Falsy(st.relationships[i].val.definition)})

\* C18: in a validate() call each configurable rule (W101, W102, W104) whose
\* severity in effect is ignore emits no issue with its code, and one whose
\* severity is warn (error) emits one issue of severity warning (error) per
\* case; by default orphan models and unimplemented concepts are warn and
\* missing definitions is ignore.
C18_SeverityMapping ==
    [][validator'.runs = validator.runs + 1 =>
        /\ \A r \in 1..Len(ConfigurableRules) :
            LET configured == get_severity(validator.config,
                                           ConfigurableRules[r].rule, "gold")
                emitted == IssuesWithCode(validator'.issues, ConfigurableRules[r].code)
            IN  /\ configured = "ignore" => emitted = <<>>
                /\ configured = "warn" =>
                     /\ Len(emitted) = RuleCases(state', ConfigurableRules[r].rule)
                     /\ \A k \in 1..Len(emitted) : emitted[k].severity = "warning"
                /\ configured = "error" =>
                     /\ Len(emitted) = RuleCases(state', ConfigurableRules[r].rule)
                     /\ \A k \in 1..Len(emitted) : emitted[k].severity = "error"
        /\ validator.config = ValidationConfig =>
            /\ \A k \in 1..Len(validator'.issues) :
                 validator'.issues[k].code \in {"W101", "W102"} =>
                    validator'.issues[k].severity = "warning"
            /\ Len(IssuesWithCode(validator'.issues, "W101"))
                 = Len(state'.orphan_models)
            /\ Len(IssuesWithCode(validator'.issues, "W102"))
                 = RuleCases(state', "unimplemented_concepts")
            /\ IssuesWithCode(validator'.issues, "W104") = <<>>]_vars

\* The default configuration ran on a state with an orphan model, a concept
\* without models and a relationship without definition: one W101 and one
\* W102 warning, no W104.
C18_Witness ==
    /\ pc = "mutated"
    /\ validator.runs = 1
    /\ validator.config = ValidationConfig
    /\ RuleCases(state, "orphan_models") = 1
    /\ RuleCases(state, "unimplemented_concepts") = 1
    /\ RuleCases(state, "missing_definitions") > 0
    /\ Len(IssuesWithCode(validator.issues, "W101")) = 1
    /\ Len(IssuesWithCode(validator.issues, "W102")) = 1
    /\ IssuesWithCode(validator.issues, "W104") = <<>>
    /\ \A k \in 1..Len(validator.issues) :
         validator.issues[k].code \in {"W101", "W102"} =>
            validator.issues[k].severity = "warning"

\* C19: a validate() call emits an enrichment issue for every non-ghost
\* concept whose status is stub or draft and for every relationship whose
\* status is stub, of severity info without no_drafts and error with it; so
\* with no_drafts has_errors() is true whenever the state holds such a concept
\* or relationship.
C19_DraftsReported ==
    [][validator'.runs = validator.runs + 1 =>
        LET severity == IF validator.no_drafts THEN "error" ELSE "info"
            on_concepts == IssuesWithCode(validator'.issues,
                               IF validator.no_drafts THEN "E201" ELSE "I001")
            on_relationships == IssuesWithCode(validator'.issues,
                               IF validator.no_drafts THEN "E202" ELSE "I002")
            concepts == {i \in 1..Len(state'.concepts) :
                            /\ ~state'.concepts[i].val.is_ghost
                            /\ status(state'.concepts[i].val) \in {"stub", "draft"}}
            relationships == {i \in 1..Len(state'.relationships) :
                            get_status(state'.relationships[i].val,
                                       state'.concepts) = "stub"}
        IN  /\ \A i \in concepts :
                \E k \in 1..Len(on_concepts) :
                    /\ on_concepts[k].context.concept = state'.concepts[i].key
                    /\ on_concepts[k].severity = severity
            /\ \A i \in relationships :
                \E k \in 1..Len(on_relationships) :
                    /\ on_relationships[k].context.relationship
                         = rel_name(state'.relationships[i].val)
                    /\ on_relationships[k].severity = severity
            /\ (validator.no_drafts /\ (concepts # {} \/ relationships # {}))
                  => has_errors(validator')]_vars

(***************************************************************************)
(* Duplicate display names in validate_and_sync                            *)
(***************************************************************************)
\* The positions of the non-ghost concepts of st whose display name is n.
NonGhostsNamed(st, n) ==
    {i \in 1..Len(st.concepts) :
        ~st.concepts[i].val.is_ghost /\ st.concepts[i].val.name = n}

\* The positions of the error messages "Duplicate concept name 'n'".
DuplicateNameMessages(messages, n) ==
    {k \in 1..Len(messages) :
        /\ messages[k].severity = "error"
        /\ messages[k].text = "Duplicate concept name '" \o n \o "'"}

IsDuplicateNameText(text) ==
    \E n \in {"Customer", "customer", "order"} :
        text \in {"Duplicate concept name '" \o n \o "'", "Duplicate name: " \o n}

\* C20: after validate_and_sync, when two or more non-ghost concepts under
\* different keys hold the same display name each of them has
\* validation_status error, the call's messages hold one error "Duplicate
\* concept name" per occurrence after the first, addressed to that
\* occurrence, and a ghost is neither flagged as a duplicate nor makes a
\* non-ghost concept of the same name one.
C20_DuplicateNames ==
    pc = "synced" =>
        \A i \in 1..Len(state.concepts) :
            LET concept == state.concepts[i].val
                same == NonGhostsNamed(state, concept.name)
                first == CHOOSE j \in same : \A k \in same : j <= k
                dups == DuplicateNameMessages(validation.messages, concept.name)
            IN  IF concept.is_ghost
                THEN /\ \A k \in 1..Len(concept.validation_messages) :
                            ~IsDuplicateNameText(concept.validation_messages[k])
                     /\ \A k \in 1..Len(validation.messages) :
                            IsDuplicateNameText(validation.messages[k].text) =>
                                validation.messages[k].element_id
                                    # state.concepts[i].key
                ELSE /\ Cardinality(dups) = Cardinality(same) - 1
                     /\ {validation.messages[k].element_id : k \in dups}
                            = {state.concepts[j].key : j \in same \ {first}}
                     /\ Cardinality(same) >= 2 =>
                            /\ concept.validation_status = "error"
                            /\ Contains(concept.validation_messages,
                                        "Duplicate name: " \o concept.name)
                     /\ Cardinality(same) = 1 =>
                            /\ concept.validation_status # "error"
                            /\ \A k \in 1..Len(concept.validation_messages) :
                                ~IsDuplicateNameText(concept.validation_messages[k])

\* Two declared concepts named Customer: both are in error and the call
\* emitted one duplicate-name error, for the second.
C20_Witness ==
    /\ pc = "synced"
    /\ calls = 1
    /\ Len(state.concepts) = 2
    /\ NonGhostsNamed(state, "Customer") = {1, 2}
    /\ state.concepts[1].val.validation_status = "error"
    /\ state.concepts[2].val.validation_status = "error"
    /\ Cardinality(DuplicateNameMessages(validation.messages, "Customer")) = 1
    /\ \A k \in DuplicateNameMessages(validation.messages, "Customer") :
            validation.messages[k].element_id = state.concepts[2].key

(***************************************************************************)
(* Duplicate relationships, empty domains, the summary and the frame of    *)
(* validate_and_sync                                                       *)
(***************************************************************************)
\* The from:verb:to key parse gives the declared relationship rel.
DeclaredRelKey(rel) == rel.from \o ":" \o RelVerb(rel) \o ":" \o rel.to

\* The keys declared by two or more entries of the document's relationships.
DuplicateDeclaredKeys ==
    IF ~doc.exists THEN {}
    ELSE {DeclaredRelKey(doc.relationships[i]) : i \in
            {i \in 1..Len(doc.relationships) :
                \E j \in 1..Len(doc.relationships) :
                    /\ j # i
                    /\ DeclaredRelKey(doc.relationships[j])
                         = DeclaredRelKey(doc.relationships[i])}}

\* C21: when the document declares two or more relationships with the same
\* from, verb and to, the relationship map holds one entry for the key, and
\* validate_and_sync emits an error "Duplicate relationship" for it and sets
\* the relationship's validation_status to error.
C21_DuplicateRelationshipReported ==
    pc = "synced" =>
        \A key \in DuplicateDeclaredKeys :
            /\ Cardinality({i \in 1..Len(state.relationships) :
                                state.relationships[i].key = key}) = 1
            /\ \E k \in 1..Len(validation.messages) :
                /\ validation.messages[k].severity = "error"
                /\ validation.messages[k].text
                     = "Duplicate relationship '" \o key \o "'"
                /\ validation.messages[k].element_id = key
            /\ Get(state.relationships, key).validation_status = "error"
            /\ Contains(Get(state.relationships, key).validation_messages,
                        "Duplicate relationship")

\* The positions of the messages addressed to the domain domain_id.
DomainMessages(messages, domain_id) ==
    {k \in 1..Len(messages) :
        messages[k].element_type = "domain" /\ messages[k].element_id = domain_id}

\* C22: validate_and_sync emits exactly one warning of element_type domain
\* for each domain that no non-ghost concept names in its domain field and
\* none for a domain some non-ghost concept names; a ghost naming a domain
\* does not count.
C22_EmptyDomainWarnings ==
    pc = "synced" =>
        /\ \A d \in 1..Len(state.domains) :
            LET domain_id == state.domains[d].key
                about == DomainMessages(validation.messages, domain_id)
            IN  IF \E i \in 1..Len(state.concepts) :
                        /\ ~state.concepts[i].val.is_ghost
                        /\ state.concepts[i].val.domain = domain_id
                THEN about = {}
                ELSE /\ Cardinality(about) = 1
                     /\ \A k \in about : validation.messages[k].severity = "warning"
        /\ \A k \in 1..Len(validation.messages) :
            validation.messages[k].element_type = "domain" =>
                Has(state.domains, validation.messages[k].element_id)

\* A domain is named by a ghost only and by a non-ghost concept of no other
\* domain: the call warned about both domains.
C22_Witness ==
    /\ pc = "synced"
    /\ \E i \in 1..Len(state.concepts) :
        state.concepts[i].val.is_ghost /\ state.concepts[i].val.domain = "party"
    /\ ~\E i \in 1..Len(state.concepts) :
        ~state.concepts[i].val.is_ghost /\ ~Falsy(state.concepts[i].val.domain)
    /\ Cardinality(DomainMessages(validation.messages, "party")) = 1
    /\ Cardinality(DomainMessages(validation.messages, "empty")) = 1

\* C23: after the first validate_and_sync on a built state, every
\* relationship with an endpoint that was not a declared concept when the
\* call started has validation_status error and at least one validation
\* message, the second and later relationships naming the same undeclared
\* concept included.
C23_DanglingRelationshipsMarked ==
    (pc = "synced" /\ calls = 1) =>
        \A i \in 1..Len(state.relationships) :
            LET rel == state.relationships[i].val
            IN  (rel.from_concept \notin DeclaredIds
                 \/ rel.to_concept \notin DeclaredIds) =>
                    /\ rel.validation_status = "error"
                    /\ rel.validation_messages # <<>>

\* The pass of validate_and_sync a message comes from, told by its severity,
\* element type and text: 1 ghost creation, 2 duplicate names, 3 duplicate
\* relationships, 4 missing models, 5 empty domains, 6 the summary; 0 if none.
PassOf(msg, st) ==
    LET concept_keys == Keys(st.concepts)
        rel_keys == Keys(st.relationships)
        names == {st.concepts[i].val.name : i \in 1..Len(st.concepts)}
    IN  IF msg.severity = "info" THEN 6
        ELSE IF msg.element_type = "domain" /\ msg.severity = "warning" THEN 5
        ELSE IF msg.element_type = "relationship" /\ msg.severity = "error"
                /\ msg.text \in {"Relationship '" \o r
                                    \o "' references non-existent concept '"
                                    \o c \o "'" : r \in rel_keys, c \in concept_keys}
        THEN 1
        ELSE IF msg.element_type = "concept" /\ msg.severity = "warning"
                /\ msg.text \in {"Stub created for concept '" \o c \o "'" :
                                    c \in concept_keys}
        THEN 1
        ELSE IF msg.element_type = "concept" /\ msg.severity = "error"
                /\ msg.text \in {"Duplicate concept name '" \o n \o "'" : n \in names}
        THEN 2
        ELSE IF msg.element_type = "relationship" /\ msg.severity = "error"
                /\ msg.text \in {"Duplicate relationship '" \o r \o "'" :
                                    r \in rel_keys}
        THEN 3
        ELSE IF msg.element_type = "concept" /\ msg.severity = "warning" THEN 4
        ELSE 0

FrameFields == <<"name", "domain", "owner", "definition", "color", "models", "is_ghost">>

\* C25: a validate_and_sync call removes no concept, leaves name, domain,
\* owner, definition, color, models and is_ghost of every concept that was in
\* the map unchanged, leaves the domains, the relationship keys and the orphan
\* list unchanged, and every concept it adds is a ghost without domain and
\* models, of status stub.
C25_SyncFrame ==
    [][calls' = calls + 1 =>
        /\ Len(state'.concepts) >= Len(state.concepts)
        /\ \A i \in 1..Len(state.concepts) :
            /\ state'.concepts[i].key = state.concepts[i].key
            /\ \A f \in 1..Len(FrameFields) :
                state'.concepts[i].val[FrameFields[f]]
                    = state.concepts[i].val[FrameFields[f]]
        /\ state'.domains = state.domains
        /\ Len(state'.relationships) = Len(state.relationships)
        /\ \A i \in 1..Len(state.relationships) :
            state'.relationships[i].key = state.relationships[i].key
        /\ state'.orphan_models = state.orphan_models
        /\ \A i \in (Len(state.concepts) + 1)..Len(state'.concepts) :
            /\ state'.concepts[i].val.is_ghost
            /\ state'.concepts[i].val.domain = None
            /\ state'.concepts[i].val.models = <<>>
            /\ status(state'.concepts[i].val) = "stub"]_vars

\* After a call the map holds a ghost the call added next to a concept with
\* a domain and a linked model that it kept.
C25_Witness ==
    /\ pc = "synced"
    /\ calls = 1
    /\ Len(state.concepts) = 2
    /\ ~state.concepts[1].val.is_ghost
    /\ state.concepts[1].val.domain = "party"
    /\ state.concepts[1].val.models # <<>>
    /\ state.concepts[2].val.is_ghost
    /\ state.concepts[2].val.domain = None

(***************************************************************************)
(* ModelInfo entries of build                                              *)
(***************************************************************************)
\* The values of the flat "domain:<value>" tags of a record.
FlatDomainValues(model) ==
    {model.tags[k][2] : k \in {j \in 1..Len(model.tags) : model.tags[j][1] = "domain:"}}

\* The values under the structured tag map's domain key: the items of a list,
\* a non-empty string, nothing when the key is absent.
StructuredDomainValues(model) ==
    LET dv == model.databricks_tags.domain
    IN  IF dv.t = "list" THEN SeqToSet(dv.v)
        ELSE IF dv.t = "str" /\ dv.v # "" THEN {dv.v}
        ELSE {}

\* The last record of the list with the name of record i and a silver or
\* gold layer is record i itself.
LastLayeredOfName(i) ==
    /\ records[i].layer \in {"silver", "gold"}
    /\ \A j \in (i + 1)..Len(records) :
        records[j].name = records[i].name => records[j].layer \notin {"silver", "gold"}

\* C26 as stated: after build every model record has a ModelInfo entry,
\* whatever its linkage, and the entry's domain_tags is the union of the flat
\* domain values and the structured domain values of the record.
C26_Original ==
    (pc = "built" /\ doc.exists) =>
        \A i \in 1..Len(records) :
            /\ Has(state.models, records[i].name)
            /\ (\A j \in (i + 1)..Len(records) : records[j].name # records[i].name) =>
                 SeqToSet(Get(state.models, records[i].name).domain_tags)
                    = FlatDomainValues(records[i]) \cup StructuredDomainValues(records[i])

\* C26 amended: after build every model record whose layer is silver or gold
\* has a ModelInfo entry under its name, whatever its linkage; the entry is
\* that of the last such record of the name and its domain_tags holds exactly
\* the flat domain values and the structured domain values of that record; a
\* name carried only by records of another or no layer has no entry.
C26_ModelInfoDomainTags ==
    (pc = "built" /\ doc.exists) =>
        /\ \A i \in 1..Len(records) :
            /\ records[i].layer \in {"silver", "gold"} =>
                 Has(state.models, records[i].name)
            /\ LastLayeredOfName(i) =>
                 LET info == Get(state.models, records[i].name)
                 IN  /\ SeqToSet(info.domain_tags)
                          = FlatDomainValues(records[i])
                            \cup StructuredDomainValues(records[i])
                     /\ info.concept = records[i].concept
                     /\ info.layer = records[i].layer
        /\ \A k \in 1..Len(state.models) :
            \E i \in 1..Len(records) :
                /\ records[i].name = state.models[k].key
                /\ records[i].layer \in {"silver", "gold"}

\* A silver record without concept link carrying a flat domain tag and a
\* structured domain list: its entry holds the values of both.
C26_Witness ==
    /\ pc = "built"
    /\ Len(records) = 1
    /\ records[1].layer = "silver"
    /\ records[1].concept = None
    /\ FlatDomainValues(records[1]) = {"party"}
    /\ StructuredDomainValues(records[1]) = {"sales", "risk"}
    /\ Has(state.models, records[1].name)
    /\ Get(state.models, records[1].name).domain_tags = <<"party", "sales", "risk">>

(***************************************************************************)
(* Properties of the sync command                                          *)
(***************************************************************************)
\* name is concept_id, or concept_id behind exactly one of the prefixes.
DerivesId(name, concept_id) ==
    \/ name = concept_id
    \/ \E p \in 1..Len(StubPrefixes) : name = StubPrefixes[p] \o concept_id

\* C27: a run of the sync command leaves every concept entry of
\* conceptual.yml as it was; with --create-stubs each entry it adds has an id
\* that was absent, derived from an orphan's name by stripping at most one
\* prefix, no id is added twice, every orphan's id is in the file afterwards;
\* a second run adds nothing, and the file is written only in a run that
\* created a stub.
C27_SyncCreateStubs ==
    [][(synccmd'.runs = synccmd.runs + 1 /\ doc.exists) =>
        LET old == doc.concepts
            new == doc'.concepts
            added == (Len(old) + 1)..Len(new)
        IN  /\ Len(new) >= Len(old)
            /\ \A k \in 1..Len(old) : new[k] = old[k]
            /\ doc'.domains = doc.domains
            /\ doc'.relationships = doc.relationships
            /\ \A k \in added :
                /\ \A j \in 1..Len(new) : new[j].id = new[k].id => j = k
                /\ \E o \in 1..Len(synccmd'.orphans) :
                        DerivesId(synccmd'.orphans[o].name, new[k].id)
                /\ new[k].status = "stub"
            /\ added # {} => synccmd.create_stubs
            /\ (synccmd.create_stubs /\ synccmd'.orphans # <<>>) =>
                \A o \in 1..Len(synccmd'.orphans) :
                    \E k \in 1..Len(new) :
                        DerivesId(synccmd'.orphans[o].name, new[k].id)
            /\ synccmd'.writes = synccmd.writes + 1 <=> added # {}
            /\ synccmd'.writes = synccmd.writes => doc' = doc
            /\ synccmd.runs >= 1 => (doc' = doc /\ synccmd'.writes = synccmd.writes)]_vars

\* Two runs with --create-stubs over orphans dim_fact_sales and dim_customer
\* and a file declaring fact_sales: the first wrote the stub customer and
\* kept fact_sales, the second wrote nothing.
C27_Witness ==
    /\ pc = "sync_done"
    /\ synccmd.create_stubs
    /\ synccmd.runs = 2
    /\ synccmd.writes = 1
    /\ synccmd.outcome = "nothing_created"
    /\ Len(synccmd.orphans) = 2
    /\ synccmd.orphans[1].name = "dim_fact_sales"
    /\ synccmd.orphans[2].name = "dim_customer"
    /\ Len(doc.concepts) = 2
    /\ doc.concepts[1] = ConceptDecl("fact_sales", "Sales facts", None, None)
    /\ doc.concepts[2].id = "customer"
    /\ doc.concepts[2].status = "stub"

(***************************************************************************)
(* server.py: GET /api/state and POST /api/state                           *)
(***************************************************************************)
\* A JSON object is a dict, a sequence of [key, val] records in key order.
Item(k, v) == [key |-> k, val |-> v]

\* obj.get(k)
Field(obj, k) == IF Has(obj, k) THEN Get(obj, k) ELSE None

\* The entry of a domain in the body of GET /api/state.
DomainJson(domain) ==
    <<Item("name", domain.name),
      Item("display_name", domain.display_name),
      Item("color", domain.color)>>

\* The entry of a concept in the body of GET /api/state.
ConceptJson(concept) ==
    <<Item("name", concept.name),
      Item("definition", concept.definition),
      Item("domain", concept.domain),
      Item("owner", concept.owner),
      Item("status", status(concept)),
      Item("color", concept.color),
      Item("models", concept.models),
      Item("isGhost", concept.is_ghost),
      Item("validationStatus", concept.validation_status),
      Item("validationMessages", concept.validation_messages)>>

\* The entry of a relationship in the body of GET /api/state.
RelationshipJson(rel, concepts) ==
    <<Item("name", rel_name(rel)),
      Item("verb", rel.verb),
      Item("from_concept", rel.from_concept),
      Item("to_concept", rel.to_concept),
      Item("cardinality", rel.cardinality),
      Item("owner", rel.owner),
      Item("definition", rel.definition),
      Item("status", get_status(rel, concepts)),
      Item("validationStatus", rel.validation_status),
      Item("validationMessages", rel.validation_messages)>>

\* has_integrity_errors: some relationship endpoint is not in state.concepts.
HasIntegrityErrors(st) ==
    \E i \in 1..Len(st.relationships) :
        \/ ~Has(st.concepts, st.relationships[i].val.from_concept)
        \/ ~Has(st.concepts, st.relationships[i].val.to_concept)

\* The body of GET /api/state for the built state (the node positions of the
\* layout file are left out).
get_state(st) ==
    [domains |-> [i \in 1..Len(st.domains) |->
                    Item(st.domains[i].key, DomainJson(st.domains[i].val))],
     concepts |-> [i \in 1..Len(st.concepts) |->
                    Item(st.concepts[i].key, ConceptJson(st.concepts[i].val))],
     relationships |-> [i \in 1..Len(st.relationships) |->
                    Item(st.relationships[i].key,
                         RelationshipJson(st.relationships[i].val, st.concepts))],
     hasIntegrityErrors |-> HasIntegrityErrors(st)]

\* {k: v for k, v in obj.items() if v is not None and k not in skipped}.  The
\* key is tested first: the values of the skipped keys are lists and booleans.
KeepItems(obj, skipped) ==
    SelectSeq(obj, LAMBDA it : it.key \notin skipped /\ it.val # None)

DomainSkipped == {"display_name"}
ConceptSkipped == {"status", "models", "isGhost", "validationStatus", "validationMessages"}
RelationshipSkipped == {"name", "status", "validationStatus", "validationMessages"}

\* yaml_data["domains"]
SavedDomains(data) ==
    [i \in 1..Len(data.domains) |->
        Item(data.domains[i].key, KeepItems(data.domains[i].val, DomainSkipped))]

\* yaml_data["concepts"]: ghosts without a domain are skipped.
SavedConcepts(data) ==
    LET defined == SelectSeq(data.concepts,
                             LAMBDA it : ~(Field(it.val, "isGhost") = TRUE
                                           /\ Falsy(Field(it.val, "domain"))))
    IN  [i \in 1..Len(defined) |->
            Item(defined[i].key, KeepItems(defined[i].val, ConceptSkipped))]

\* Map API field names to YAML field names.
YamlKey(k) ==
    IF k = "from_concept" THEN "from"
    ELSE IF k = "to_concept" THEN "to"
    ELSE k

\* rel_dict of one relationship of the body.
SavedRelationship(rel) ==
    LET kept == KeepItems(rel, RelationshipSkipped)
    IN  [i \in 1..Len(kept) |-> Item(YamlKey(kept[i].key), kept[i].val)]

\* yaml_data["relationships"], a list.
SavedRelationships(data) ==
    [i \in 1..Len(data.relationships) |-> SavedRelationship(data.relationships[i].val)]

\* The entries of the written file as the parser reads them.
DomainOfYaml(id, obj) ==
    [id |-> id, name |-> Field(obj, "name"), color |-> Field(obj, "color"),
     owner |-> Field(obj, "owner")]

ConceptOfYaml(id, obj) ==
    [id |-> id, name |-> Field(obj, "name"), domain |-> Field(obj, "domain"),
     owner |-> Field(obj, "owner"), definition |-> Field(obj, "definition"),
     color |-> Field(obj, "color"), replaced_by |-> Field(obj, "replaced_by")]

RelationshipOfYaml(obj) ==
    [verb |-> Field(obj, "verb"), name |-> Field(obj, "name"),
     from |-> Field(obj, "from"), to |-> Field(obj, "to"),
     cardinality |-> Field(obj, "cardinality"),
     definition |-> Field(obj, "definition"), owner |-> Field(obj, "owner"),
     domains |-> IF Has(obj, "domains") THEN Get(obj, "domains") ELSE Absent,
     domain |-> IF Has(obj, "domain") THEN Get(obj, "domain") ELSE Absent,
     custom_name |-> Field(obj, "custom_name")]

\* save_state: 404 and no write when conceptual.yml is missing; otherwise the
\* file is rewritten from the body (only a config section is carried over).
save_state(data, d) ==
    IF ~d.exists THEN d
    ELSE LET domains == SavedDomains(data)
             concepts == SavedConcepts(data)
             relationships == SavedRelationships(data)
         IN  [exists |-> TRUE, metadata |-> <<>>,
              domains |-> [i \in 1..Len(domains) |->
                              DomainOfYaml(domains[i].key, domains[i].val)],
              concepts |-> [i \in 1..Len(concepts) |->
                              ConceptOfYaml(concepts[i].key, concepts[i].val)],
              relationships |-> [i \in 1..Len(relationships) |->
                              RelationshipOfYaml(relationships[i])],
              groups |-> <<>>]

\* Domains, concepts and relationships of the files the server is started on.
ServerDomains ==
    {<<>>,
     <<DomainDecl("party", None)>>,
     <<[DomainDecl("party", "party") EXCEPT !.color = "#336699"]>>,
     <<[DomainDecl("party", "Party") EXCEPT !.color = "#336699", !.owner = "team-a"]>>}

ServerConcepts ==
    {<<>>,
     <<ConceptDecl("customer", None, None, None)>>,
     <<[ConceptDecl("customer", "Customer", "party", "team-a") EXCEPT
            !.definition = "A buyer", !.color = "#ff0000"]>>,
     <<[ConceptDecl("customer", "Customer", "party", "team-a") EXCEPT
            !.definition = "A buyer"],
       ConceptDecl("order", "Order", "party", None)>>}

ServerRelationships ==
    {<<>>,
     <<RelDecl("places", None, "customer", "order", None, Absent, Absent)>>,
     <<[RelDecl("places", None, "customer", "order", "1:N", Absent, Absent) EXCEPT
            !.definition = "A customer places orders", !.owner = "team-a"]>>,
     <<RelDecl(None, "places", "customer", "order", "1:N", Str("party"), Absent)>>,
     <<RelDecl("places", None, "customer", "order", "1:N", Absent, Absent),
       RelDecl("contains", None, "order", "customer", "1:1", Absent, Absent)>>}

InitServer ==
    /\ doc \in {NoDoc}
         \cup {Document(ds, cs, rs) :
                ds \in ServerDomains, cs \in ServerConcepts, rs \in ServerRelationships}
    /\ records \in {<<>>, <<ModelRecord("dim_customer", "gold", "customer", Absent)>>}
    /\ manifest = NoManifest
    /\ state = ProjectState
    /\ prev = NotBuilt
    /\ validation = Nothing
    /\ response = Nothing
    /\ calls = 0
    /\ validator = Nothing
    /\ diffrun = Nothing
    /\ synccmd = Nothing
    /\ tagrun = Nothing
    /\ pc = "start"

\* GET /api/state: the state is built from the project files and returned.
GetState ==
    /\ pc \in {"start", "saved"}
    /\ state' = build(doc, records, manifest)
    /\ response' = get_state(state')
    /\ pc' = "served"
    /\ UNCHANGED <<doc, records, manifest, prev, validation, calls, validator,
                   diffrun, synccmd, tagrun>>

\* POST /api/state with the body of the last GET, unmodified.
PostState ==
    /\ pc = "served"
    /\ doc' = save_state(response, doc)
    /\ pc' = "saved"
    /\ UNCHANGED <<records, manifest, state, prev, validation, response, calls,
                   validator, diffrun, synccmd, tagrun>>

NextServer == GetState \/ PostState

SpecServer == InitServer /\ [][NextServer]_vars

\* The declared fields of two parsed states that a save has to keep.
SameDomains(a, b) ==
    /\ Keys(a.domains) = Keys(b.domains)
    /\ \A k \in Keys(a.domains) :
        /\ Get(a.domains, k).display_name = Get(b.domains, k).display_name
        /\ Get(a.domains, k).color = Get(b.domains, k).color
        /\ Get(a.domains, k).owner = Get(b.domains, k).owner

SameConcepts(a, b) ==
    /\ Keys(a.concepts) = Keys(b.concepts)
    /\ \A k \in Keys(a.concepts) :
        /\ Get(a.concepts, k).name = Get(b.concepts, k).name
        /\ Get(a.concepts, k).domain = Get(b.concepts, k).domain
        /\ Get(a.concepts, k).owner = Get(b.concepts, k).owner
        /\ Get(a.concepts, k).definition = Get(b.concepts, k).definition
        /\ Get(a.concepts, k).color = Get(b.concepts, k).color

SameRelationships(a, b) ==
    /\ Keys(a.relationships) = Keys(b.relationships)
    /\ \A k \in Keys(a.relationships) :
        /\ Get(a.relationships, k).cardinality = Get(b.relationships, k).cardinality
        /\ Get(a.relationships, k).definition = Get(b.relationships, k).definition
        /\ Get(a.relationships, k).owner = Get(b.relationships, k).owner

\* No derived or validation field is among the keys written for the body.
NoDerivedWritten(data) ==
    /\ \A i \in 1..Len(SavedConcepts(data)) :
        Keys(SavedConcepts(data)[i].val) \cap ConceptSkipped = {}
    /\ \A i \in 1..Len(SavedRelationships(data)) :
        Keys(SavedRelationships(data)[i]) \cap RelationshipSkipped = {}

\* C28: posting the unmodified body of GET /api/state leaves the declared
\* model unchanged: the re-parsed file has the same domains (display_name,
\* color, owner), concepts (name, domain, owner, definition, color) and
\* relationships (cardinality, definition, owner), and no derived or
\* validation field is written.
C28_RoundTrip ==
    [][(pc = "served" /\ pc' = "saved")
        => /\ SameDomains(parse(doc), parse(doc'))
           /\ SameConcepts(parse(doc), parse(doc'))
           /\ SameRelationships(parse(doc), parse(doc'))
           /\ NoDerivedWritten(response)]_vars

(***************************************************************************)
(* tag_applier.py: TagApplier.compute_changes and TagApplier.apply         *)
(***************************************************************************)
\* config.validation.tag_validation
TagValidationConfig(domains_allow_multiple, domains_format) ==
    [domains_allow_multiple |-> domains_allow_multiple,
     domains_format |-> domains_format]

\* sorted(...) over the tag values in use: the values in alphabetical order.
TagOrder == <<"party", "risk", "sales", "team-a", "team-b">>

Sorted(S) == SelectSeq(TagOrder, LAMBDA x : x \in S)

TagChange(model_name, action, current_tags, expected_tags, domain_tags_to_add, domain_tags_to_remove, owner_tag_to_add, owner_tag_to_remove) ==
    [model_name |-> model_name, action |-> action,
     current_tags |-> current_tags, expected_tags |-> expected_tags,
     domain_tags_to_add |-> domain_tags_to_add,
     domain_tags_to_remove |-> domain_tags_to_remove,
     owner_tag_to_add |-> owner_tag_to_add,
     owner_tag_to_remove |-> owner_tag_to_remove]

\* f"domain:{value}", f"owner:{value}": a tag is the pair <<prefix, rest>>.
DomainTag(value) == <<"domain:", value>>
OwnerTag(value) == <<"owner:", value>>

\* The expected owner: the concept's, else the owner of the concept's domain.
ExpectedOwner(st, concept) ==
    IF ~Falsy(concept.owner) THEN concept.owner
    ELSE IF Has(st.domains, concept.domain)
         THEN Get(st.domains, concept.domain).owner
    ELSE None

\* _find_model_file: whether a schema file lists the model.
find_model_file(files, model_name) ==
    \E i \in 1..Len(files) : files[i].name = model_name

\* The body of the loop of compute_changes for one entry of state.models: the
\* changes it appends (none or one).
ChangesOfModel(st, config, model_names, files, info) ==
    IF model_names # <<>> /\ ~Contains(model_names, info.name) THEN <<>>
    ELSE IF Falsy(info.concept) THEN <<>>
    ELSE IF ~Has(st.concepts, info.concept) THEN <<>>
    ELSE IF Get(st.concepts, info.concept).is_ghost THEN <<>>
    ELSE IF Falsy(Get(st.concepts, info.concept).domain) THEN <<>>
    ELSE
    LET concept == Get(st.concepts, info.concept)
        expected_domain == concept.domain
        expected_owner == ExpectedOwner(st, concept)
        current_domain_tags == SeqToSet(info.domain_tags)
        expected_domain_tags == {expected_domain}
        domain_tags_to_add == Sorted(expected_domain_tags \ current_domain_tags)
        domain_tags_to_remove ==
            IF ~config.domains_allow_multiple
            THEN Sorted(current_domain_tags \ expected_domain_tags)
            ELSE <<>>
        owner_changes == ~Falsy(expected_owner) /\ info.owner_tag # expected_owner
        owner_tag_to_add == IF owner_changes THEN expected_owner ELSE None
        owner_tag_to_remove ==
            IF owner_changes /\ ~Falsy(info.owner_tag) THEN info.owner_tag ELSE None
        changed ==
            \/ domain_tags_to_add # <<>>
            \/ domain_tags_to_remove # <<>>
            \/ ~Falsy(owner_tag_to_add)
            \/ ~Falsy(owner_tag_to_remove)
        action == IF info.domain_tags = <<>> THEN "add" ELSE "modify"
        standard == config.domains_format = "standard"
        kept == Sorted((current_domain_tags \ SeqToSet(domain_tags_to_remove))
                       \ expected_domain_tags)
        expected_tags ==
            IF ~standard THEN <<>>
            ELSE [i \in 1..Len(domain_tags_to_add) |-> DomainTag(domain_tags_to_add[i])]
                 \o [i \in 1..Len(kept) |-> DomainTag(kept[i])]
                 \o (IF ~Falsy(owner_tag_to_add)
                     THEN <<OwnerTag(owner_tag_to_add)>> ELSE <<>>)
        current_tags ==
            info.domain_tags
            \o (IF ~Falsy(info.owner_tag) THEN <<info.owner_tag>> ELSE <<>>)
    IN  IF ~changed THEN <<>>
        ELSE IF ~find_model_file(files, info.name) THEN <<>>
        ELSE <<TagChange(info.name, action, current_tags, expected_tags,
                         domain_tags_to_add, domain_tags_to_remove,
                         owner_tag_to_add, owner_tag_to_remove)>>

RECURSIVE ComputeChangesFrom(_, _, _, _, _)
ComputeChangesFrom(st, config, model_names, files, i) ==
    IF i > Len(st.models) THEN <<>>
    ELSE ChangesOfModel(st, config, model_names, files, st.models[i].val)
         \o ComputeChangesFrom(st, config, model_names, files, i + 1)

\* TagApplier.compute_changes(model_names); no names is every model.
compute_changes(st, config, model_names, files) ==
    ComputeChangesFrom(st, config, model_names, files, 1)

\* The tag list of a model after a change in standard format: the tags that
\* are neither domain: nor owner: tags, the domains to add, the values of
\* current_tags not being removed as domain: tags, the owner to add.
StandardTags(config, tags, change) ==
    LET others == SelectSeq(tags, LAMBDA t : t[1] \notin {"domain:", "owner:"})
        added == [i \in 1..Len(change.domain_tags_to_add) |->
                    DomainTag(change.domain_tags_to_add[i])]
        bare == SelectSeq(
                    Sorted(SeqToSet(change.current_tags)
                           \ SeqToSet(change.domain_tags_to_remove)),
                    LAMBDA domain :
                        /\ domain # ""
                        /\ ~Contains(change.domain_tags_to_add, domain)
                        /\ config.domains_allow_multiple)
        kept == [i \in 1..Len(bare) |-> DomainTag(bare[i])]
        owner == IF ~Falsy(change.owner_tag_to_add)
                 THEN <<OwnerTag(change.owner_tag_to_add)>> ELSE <<>>
    IN  others \o added \o kept \o owner

\* config["databricks_tags"] of a model after a change in databricks format.
DatabricksApplied(config, db_tags, change) ==
    LET withDomain ==
            IF change.domain_tags_to_add = <<>> THEN db_tags
            ELSE IF config.domains_allow_multiple
                 THEN [db_tags EXCEPT !.domain = Lst(change.domain_tags_to_add)]
            ELSE [db_tags EXCEPT !.domain = Str(change.domain_tags_to_add[1])]
    IN  IF ~Falsy(change.owner_tag_to_add)
        THEN [withDomain EXCEPT !.owner = Str(change.owner_tag_to_add)]
        ELSE withDomain

\* changes_by_model[model_name]: the last change of that name.
ChangeOf(changes, model_name) ==
    changes[CHOOSE i \in 1..Len(changes) :
                /\ changes[i].model_name = model_name
                /\ \A j \in (i + 1)..Len(changes) : changes[j].model_name # model_name]

HasChange(changes, model_name) ==
    \E i \in 1..Len(changes) : changes[i].model_name = model_name

\* One iteration of `for model in content.get("models", [])`.
ApplyToModel(config, changes, model) ==
    IF ~HasChange(changes, model.name) THEN model
    ELSE IF config.domains_format = "standard"
         THEN [model EXCEPT
                !.tags = StandardTags(config, model.tags, ChangeOf(changes, model.name))]
    ELSE IF config.domains_format = "databricks"
         THEN [model EXCEPT
                !.databricks_tags =
                    DatabricksApplied(config, model.databricks_tags,
                                      ChangeOf(changes, model.name))]
    ELSE model

\* _apply_to_file: the models of the schema file after the changes; the file
\* is written back unless dry_run.
apply_to_file(config, files, changes, dry_run) ==
    IF dry_run THEN files
    ELSE [i \in 1..Len(files) |-> ApplyToModel(config, changes, files[i])]

\* TagApplier.apply: every file with a change is processed.
apply(config, files, changes, dry_run) ==
    IF changes = <<>> THEN files
    ELSE apply_to_file(config, files, changes, dry_run)

\* The entry of a model in its schema file: the tags the manifest record has.
SchemaEntry(model) ==
    [name |-> model.name, tags |-> model.tags,
     databricks_tags |-> model.databricks_tags]

\* TagApplier(config, state) over the schema file listing `files`.
TagRun(config, model_names, files) ==
    [config |-> config, model_names |-> model_names, files |-> files,
     changes |-> <<>>, dry_run |-> FALSE, modified_files |-> 0]

\* Tag lists of a model: none, the expected ones with another tag, another
\* domain, two domains with another owner, an owner only.
TagLists ==
    {<<>>,
     <<DomainTag("party"), OwnerTag("team-a"), <<"", "pii">>>>,
     <<DomainTag("sales")>>,
     <<DomainTag("party"), DomainTag("risk"), OwnerTag("team-b")>>,
     <<<<"", "pii">>, OwnerTag("team-a")>>}

TagRecords ==
    {[ModelRecord(n, "gold", c, Absent) EXCEPT !.tags = t] :
        n \in ModelNames, c \in {"customer", None}, t \in TagLists}

DistinctNames(models) ==
    \A i, j \in 1..Len(models) : models[i].name = models[j].name => i = j

\* conceptual.yml for the tag applier: the domain with or without an owner,
\* the concept with or without a domain and an owner.
TagDocs ==
    {Document(<<[DomainDecl("party", "Party") EXCEPT !.owner = downer]>>,
              <<ConceptDecl("customer", "Customer", cd[1], cd[2])>>, <<>>) :
        downer \in {None, "team-b"},
        cd \in {<<"party", None>>, <<"party", "team-a">>, <<None, "team-a">>}}

InitTags ==
    /\ doc \in TagDocs
    /\ records \in {ms \in SeqsUpTo(TagRecords, MaxRecords) : DistinctNames(ms)}
    /\ manifest = NoManifest
    /\ state = build(doc, records, manifest)
    /\ prev = NotBuilt
    /\ validation = Nothing
    /\ response = Nothing
    /\ calls = 0
    /\ validator = Nothing
    /\ diffrun = Nothing
    /\ synccmd = Nothing
    /\ \E allow \in BOOLEAN, format \in {"standard", "databricks"},
          model_names \in {<<>>, <<"dim_customer">>}, listed \in BOOLEAN :
            tagrun = TagRun(TagValidationConfig(allow, format), model_names,
                            IF listed
                            THEN [i \in 1..Len(records) |-> SchemaEntry(records[i])]
                            ELSE <<>>)
    /\ pc = "start"

\* changes = applier.compute_changes(model_list)
ComputeChanges ==
    /\ pc = "start"
    /\ tagrun' = [tagrun EXCEPT
                    !.changes = compute_changes(state, tagrun.config,
                                                tagrun.model_names, tagrun.files)]
    /\ pc' = "computed"
    /\ UNCHANGED <<doc, records, manifest, state, prev, validation, response,
                   calls, validator, diffrun, synccmd>>

\* applier.apply(changes, dry_run)
Apply ==
    /\ pc = "computed"
    /\ \E dry_run \in BOOLEAN :
        tagrun' = [tagrun EXCEPT
                    !.files = apply(tagrun.config, tagrun.files, tagrun.changes, dry_run),
                    !.dry_run = dry_run,
                    !.modified_files = IF tagrun.changes = <<>> THEN 0 ELSE 1]
    /\ pc' = "applied"
    /\ UNCHANGED <<doc, records, manifest, state, prev, validation, response,
                   calls, validator, diffrun, synccmd>>

NextTags == ComputeChanges \/ Apply

SpecTags == InitTags /\ [][NextTags]_vars

\* The values of the tags of a list with the given prefix.
TagValues(tags, prefix) ==
    {tags[i][2] : i \in {j \in 1..Len(tags) : tags[j][1] = prefix}}

TagCount(tags, prefix) ==
    Cardinality({j \in 1..Len(tags) : tags[j][1] = prefix})

\* The entry of a model in the schema file.
EntryOf(files, model_name) ==
    files[CHOOSE i \in 1..Len(files) : files[i].name = model_name]

\* The tags of a changed model after apply: only domains that are the
\* concept's or that the model had, one owner tag equal to the expected owner
\* when an owner change was computed, every other tag kept.
AppliedAsComputed(st, before, after, change) ==
    LET info == Get(st.models, change.model_name)
        concept == Get(st.concepts, info.concept)
    IN  /\ TagValues(after, "domain:")
            \subseteq ({concept.domain} \cup SeqToSet(info.domain_tags))
        /\ (change.owner_tag_to_add # None
            => /\ TagCount(after, "owner:") = 1
               /\ TagValues(after, "owner:") = {ExpectedOwner(st, concept)})
        /\ \A i \in 1..Len(before) :
            before[i][1] \notin {"domain:", "owner:"} => Contains(after, before[i])

\* A model whose tags already agree with its concept.
TagsAgree(st, info) ==
    /\ ~Falsy(info.concept)
    /\ Has(st.concepts, info.concept)
    /\ Contains(info.domain_tags, Get(st.concepts, info.concept).domain)
    /\ info.owner_tag = ExpectedOwner(st, Get(st.concepts, info.concept))

\* C29: in standard format, after apply every model with a computed change
\* has domain tags only for the concept's domain or domains it already had,
\* exactly one owner tag equal to the expected owner when an owner change was
\* computed, and all its other tags; compute_changes yields no change for a
\* model whose tags already agree with its concept.
C29_TagsApplied ==
    [][(pc = "computed" /\ pc' = "applied"
        /\ tagrun.config.domains_format = "standard" /\ ~tagrun'.dry_run)
        => /\ \A i \in 1..Len(tagrun.changes) :
                AppliedAsComputed(state,
                    EntryOf(tagrun.files, tagrun.changes[i].model_name).tags,
                    EntryOf(tagrun'.files, tagrun.changes[i].model_name).tags,
                    tagrun.changes[i])
           /\ \A i \in 1..Len(state.models) :
                TagsAgree(state, state.models[i].val)
                => ~HasChange(tagrun.changes, state.models[i].key)]_vars

(***************************************************************************)
(* Lineage inference over dependency graphs                                *)
(***************************************************************************)
\* The models of the dependency graphs and the dependencies a manifest may
\* hold: every model on every other one, and the first model on a source.
LineageNodes == <<"stg_orders", "stg_customer", "dim_customer">>

LineageEdges ==
    <<[from |-> "stg_orders", kind |-> "source", name |-> "raw.customers"],
      [from |-> "stg_orders", kind |-> "model", name |-> "stg_customer"],
      [from |-> "stg_orders", kind |-> "model", name |-> "dim_customer"],
      [from |-> "stg_customer", kind |-> "model", name |-> "stg_orders"],
      [from |-> "stg_customer", kind |-> "model", name |-> "dim_customer"],
      [from |-> "dim_customer", kind |-> "model", name |-> "stg_orders"],
      [from |-> "dim_customer", kind |-> "model", name |-> "stg_customer"]>>

\* The layers config.get_layer gives the three models' paths.
LineageLayers ==
    {<<"bronze", "silver", "gold">>, <<"silver", "silver", "gold">>,
     <<"silver", "gold", "gold">>}

\* depends_on.nodes of a model: the chosen dependencies it is the origin of.
DepsOf(edges, name) ==
    LET own == SelectSeq(LineageEdges, LAMBDA e : e \in edges /\ e.from = name)
    IN  [i \in 1..Len(own) |-> [kind |-> own[i].kind, name |-> own[i].name]]

LineageManifest(edges, layers) ==
    [exists |-> TRUE,
     nodes |-> [i \in 1..Len(LineageNodes) |->
                    [name |-> LineageNodes[i], layer |-> layers[i],
                     deps |-> DepsOf(edges, LineageNodes[i])]]]

\* A project whose records and manifest give every model the same layer.
InitLineage ==
    /\ \E edges \in SUBSET SeqToSet(LineageEdges), layers \in LineageLayers,
          links \in [1..Len(LineageNodes) -> {None} \cup ConceptIds] :
        /\ doc = Document(<<DomainDecl("party", "Party")>>,
                          <<ConceptDecl("customer", None, "party", None),
                            ConceptDecl("order", None, "party", None)>>, <<>>)
        /\ records = [i \in 1..Len(LineageNodes) |->
                        ModelRecord(LineageNodes[i], layers[i], links[i], Absent)]
        /\ manifest = LineageManifest(edges, layers)
    /\ state = ProjectState
    /\ prev = NotBuilt
    /\ validation = Nothing
    /\ response = Nothing
    /\ calls = 0
    /\ validator = Nothing
    /\ diffrun = Nothing
    /\ synccmd = Nothing
    /\ tagrun = Nothing
    /\ pc = "start"

NextLineage == Build \/ Rebuild

SpecLineage == InitLineage /\ [][NextLineage]_vars

\* The models the upstream loop of an anchor adds to `visited`, in order.
RECURSIVE UpVisits(_, _, _, _, _, _)
UpVisits(st, concept_id, queue, visited, man, explicit) ==
    IF queue = <<>> THEN <<>>
    ELSE IF Head(queue) \in visited
         THEN UpVisits(st, concept_id, Tail(queue), visited, man, explicit)
    ELSE <<Head(queue)>>
         \o UpVisits(st, concept_id,
                     UpEdges(st, concept_id, upstream_graph(man, Head(queue)), 1,
                             Tail(queue), visited \cup {Head(queue)}, man,
                             explicit).queue,
                     visited \cup {Head(queue)}, man, explicit)

\* The models the downstream loop of an anchor adds to `visited`, in order.
RECURSIVE DownVisits(_, _, _, _, _, _)
DownVisits(st, concept_id, queue, visited, man, explicit) ==
    IF queue = <<>> THEN <<>>
    ELSE IF Head(queue) \in visited
         THEN DownVisits(st, concept_id, Tail(queue), visited, man, explicit)
    ELSE <<Head(queue)>>
         \o DownVisits(st, concept_id,
                       DownEdges(st, concept_id, downstream_graph(man, Head(queue)), 1,
                                 Tail(queue), visited \cup {Head(queue)}, man,
                                 explicit).queue,
                       visited \cup {Head(queue)}, man, explicit)

\* The state _infer_lineage starts from and its explicit_models.
Reconciled == ProcessModels(parse(doc), records, 1)

ExplicitOfProject == ExplicitModels(Reconciled.concepts, 1, <<>>)

\* A record carrying meta.concept for a declared concept.
ExplicitlyLinked(model) ==
    model.concept # None /\ Has(Reconciled.concepts, model.concept)

LinkedNames == {records[i].name : i \in {j \in 1..Len(records) : ExplicitlyLinked(records[j])}}

\* Every model list of a concept.
ListedModels(concept) ==
    SeqToSet(concept.bronze_models) \cup SeqToSet(concept.silver_models)
    \cup SeqToSet(concept.gold_models) \cup SeqToSet(concept.inferred_models)

\* C30: lineage inference ends on every dependency graph, cycles included,
\* having visited each model at most once per anchor and direction; it goes
\* through no explicitly linked model other than the anchor, and no model
\* explicitly linked to a concept is in another concept's model lists or
\* inferred_models.
C30_LineageInference ==
    (pc = "built" /\ manifest.exists)
    => /\ \A i \in 1..Len(ExplicitOfProject) :
            LET anchor == ExplicitOfProject[i].key
                concept_id == ExplicitOfProject[i].val
                up == UpVisits(Reconciled, concept_id, <<anchor>>, {}, manifest,
                               ExplicitOfProject)
                down == DownVisits(Reconciled, concept_id, <<anchor>>, {}, manifest,
                                   ExplicitOfProject)
            IN  /\ NoDup(up) /\ NoDup(down)
                /\ \A k \in 2..Len(up) : up[k] \notin LinkedNames
                /\ \A k \in 2..Len(down) : down[k] \notin LinkedNames
       /\ \A i \in 1..Len(records), j \in 1..Len(state.concepts) :
            (ExplicitlyLinked(records[i]) /\ state.concepts[j].key # records[i].concept)
            => records[i].name \notin ListedModels(state.concepts[j].val)

====
